---- MODULE Spec2Model ----
(***************************************************************************)
(* A model of the real-time stream core of the stock trading application:  *)
(* the fixed-capacity SlidingWindow, the timer utilities of                *)
(* utils/throttle.ts (throttle, debounce, createThrottledUpdater) and the  *)
(* StockProvider update pipeline that is built from them.                  *)
(*                                                                         *)
(* Time is a millisecond clock `now`.  setTimeout/clearTimeout work on one *)
(* timer queue `timers`, as in the single-threaded JavaScript runtime: a   *)
(* timer whose deadline is reached runs before the clock moves on, due     *)
(* timers run in the order they were armed.                                *)
(***************************************************************************)
EXTENDS Integers, Sequences, FiniteSets, TLC

\* ----------------------------------------------------------------- bounds
MaxCap == 3          \* largest window capacity that is constructed
MaxItem == 2         \* items pushed are drawn from 1..MaxItem
MaxPushes == 5       \* pushes between two clears
MaxMany == 2         \* longest argument of pushMany
MaxInterval == 2     \* largest interval handed to a timer utility
MaxTime == 4         \* the clock advances in 1 ms steps up to MaxTime
MaxRecords == 4      \* record() calls on the throttled updater
MaxCalls == 4        \* calls to a throttled / debounced function
MaxTicks == 3        \* ticks delivered to the StockProvider
MaxUpdates == 2      \* price actions reduced after SET_STOCKS
MaxStocks == 3       \* longest list handed to searchStocks
MaxListed == 2       \* longest list of stocks filteredStocks works on
MaxSorted == 4       \* longest sorted list handed to a binary search
MaxInto == 3         \* longest sorted list a stock is inserted into
MaxPoints == 8       \* most points in a window that labels are taken from
MaxCount == 6        \* largest count handed to getLabels
MaxCopies == 2       \* getAll() calls whose results are kept and changed
MaxEdits == 2        \* changes made to the arrays getAll() returned
MaxSockets == 6      \* WebSocket objects the service creates
MaxFed == 3          \* ticks the service hands to its update callback

\* ------------------------------------------------------ program constants
UI_UPDATE_THROTTLE_MS == 250
PRICE_HISTORY_MAX_POINTS == 100
maxReconnectAttempts == 5
reconnectDelay == 3000
FALLBACK_DELAY == 5000

Keys == {"A", "B"}
\* an optional value: None, or Some(x)
None == <<>>
Some(x) == <<x>>

VARIABLES
  now,              \* the clock, in ms
  timers,           \* armed timers: records [id, at, cb, args]
  nextTimerId,      \* setTimeout hands out ids 1, 2, 3, ...
  \* SlidingWindow
  data,             \* SlidingWindow.data
  maxSize,          \* SlidingWindow.maxSize
  pushed,           \* history: the items pushed since construction / clear()
  \* createThrottledUpdater
  throttleMs,       \* its throttleMs parameter
  updaterPending,   \* its pendingUpdates map
  isScheduled,      \* its isScheduled flag
  recorded,         \* history: number of record() calls, the value of the next one
  cycleLog,         \* history: <<key, value, time>> of the records of the open cycle
  cycles,           \* history: number of cycles begun
  flushCount,       \* history: number of updateFn invocations
  lastFlush,        \* history: the last updateFn invocation
  delivered,        \* history: per key, the last value handed to updateFn
  latest,           \* history: per key, the last value recorded
  \* throttle / debounce (one wrapped function under test at a time)
  limit,            \* throttle's limit parameter (0: no throttle constructed)
  inThrottle,       \* throttle's inThrottle flag
  lastArgs,         \* throttle's lastArgs
  wait,             \* debounce's wait parameter (0: no debounce constructed)
  timeoutId,        \* debounce's timeoutId
  callLog,          \* history: the calls of the wrapped function, [at, args, quiet]
  fnCalls,          \* history: the invocations of func, [at, args, by, n]
  \* StockProvider
  pendingUpdates,   \* pendingUpdates.current
  mounted,          \* the provider's effect is set up and not yet cleaned up
  tickLog,          \* history: the ticks accepted by handleStockUpdate, [key, at]
  dispatches,       \* history: the BATCH_UPDATE_PRICES actions dispatched
  teardownMark,     \* history: number of dispatches when the cleanup ran
  \* StockWebSocketService
  service,          \* its fields, and the provider's simulationFallbackTimer
  sockets,          \* the WebSocket objects it created: readyState of each
  serviceLog,       \* history: connects, closes, errors and ticks fed
  \* stockReducer
  stocks,           \* state.stocks: symbol -> Stock
  priceWindows,     \* state.priceWindows: symbol -> data of its StockPriceWindow
  lastAction,       \* history: the last action reduced, [type, payload, n, before]
  \* one call of a pure function
  input,            \* the arguments of the call
  output            \* None before the call, Some(result) after it

timeVars == <<now, timers, nextTimerId>>
windowVars == <<data, maxSize, pushed>>
updaterVars == <<throttleMs, updaterPending, isScheduled, recorded, cycleLog,
                 cycles, flushCount, lastFlush, delivered, latest>>
wrapVars == <<limit, inThrottle, lastArgs, wait, timeoutId, callLog, fnCalls>>
serviceVars == <<service, sockets, serviceLog>>
providerVars == <<pendingUpdates, mounted, tickLog, dispatches, teardownMark, serviceVars>>
storeVars == <<stocks, priceWindows, lastAction>>
callVars == <<input, output>>
vars == <<timeVars, windowVars, updaterVars, wrapVars, providerVars, storeVars,
          callVars>>

\* ----------------------------------------------------------------- helpers
Min(a, b) == IF a < b THEN a ELSE b
MaxOf(S) == CHOOSE x \in S : \A y \in S : y <= x
MinOf(S) == CHOOSE x \in S : \A y \in S : x <= y
LastN(s, n) == SubSeq(s, Len(s) - n + 1, Len(s))
SeqsUpTo(S, n) == UNION {[1..k -> S] : k \in 0..n}

\* Map<string, T> as a function on the keys it holds
EmptyMap == [k \in {} |-> 0]
MapSet(m, k, v) == [x \in (DOMAIN m) \cup {k} |-> IF x = k THEN v ELSE m[x]]

\* --------------------------------------------------------- the timer queue
\* (a negative delay counts as 0)
setTimeout(q, cb, args, ms) ==
  q \cup {[id |-> nextTimerId, at |-> now + (IF ms < 0 THEN 0 ELSE ms), cb |-> cb, args |-> args]}
clearTimeout(q, id) == {t \in q : t.id # id}
Due == {t \in timers : t.at <= now}
Armed(cb) == {t \in timers : t.cb = cb}
\* the due timer the runtime runs next
NextDue(t) == t \in Due /\ \A u \in Due : t.id <= u.id

TimeInit == now = 0 /\ timers = {} /\ nextTimerId = 1

\* 1 ms passes; a due timer runs first
Elapse ==
  /\ now < MaxTime
  /\ Due = {}
  /\ now' = now + 1
  /\ UNCHANGED <<timers, nextTimerId>>

\* nothing happens until the next timer is due
ElapseToTimer ==
  /\ timers # {}
  /\ Due = {}
  /\ now' = MinOf({t.at : t \in timers})
  /\ UNCHANGED <<timers, nextTimerId>>

\* ------------------------------------------------------------ SlidingWindow
pushOffByOne(d, m, item) == IF Len(d) + 1 > m + 1 THEN Tail(Append(d, item)) ELSE Append(d, item)
pushDropNewest(d, m, item) == IF Len(d) + 1 > m THEN d ELSE Append(d, item)
push(d, m, item) == IF Len(Append(d, item)) > m THEN Tail(Append(d, item)) ELSE Append(d, item)

pushManyLastOnly(d, m, items) == IF items = <<>> THEN d ELSE push(d, m, items[Len(items)])
\* items.forEach(item => this.push(item)): the items are pushed one by one, in
\* order.  The items of the first half are pushed, then those of the second,
\* onto the window the first half left (bound as a value), so that a history
\* of a hundred points is folded at logarithmic depth.
RECURSIVE pushMany(_, _, _)
pushMany(d, m, items) ==
  IF items = <<>> THEN d
  ELSE IF Len(items) = 1 THEN push(d, m, items[1])
  ELSE CHOOSE r \in {pushMany(first, m, SubSeq(items, Len(items) \div 2 + 1, Len(items))) :
                       first \in {pushMany(d, m, SubSeq(items, 1, Len(items) \div 2))}} : TRUE

getAll(d) == d
size(d) == Len(d)
\* getLatest(): data[data.length - 1], undefined for an empty window
getLatest(d) == IF Len(d) = 0 THEN None ELSE Some(d[Len(d)])
\* Arrays are objects: `arrays` maps each array's reference to its contents.
\* [...this.data] allocates a new array holding the elements of this.data and
\* evaluates to its reference.
sameArray(arrays, self) == [ref |-> self, arrays |-> arrays]
spread(arrays, self) ==
  LET ref == Cardinality(DOMAIN arrays) + 1
  IN [ref |-> ref, arrays |-> [r \in DOMAIN arrays \cup {ref} |-> arrays[IF r = ref THEN self ELSE r]]]

\* Array.prototype.slice(start): a negative start counts from the end, a start
\* beyond either end is clamped; -0 is 0
slice(d, start) ==
  LET k == IF start < 0
           THEN (IF Len(d) + start < 0 THEN 0 ELSE Len(d) + start)
           ELSE Min(start, Len(d))
  IN SubSeq(d, k + 1, Len(d))
getRecent(d, n) == slice(d, 0 - n)

\* new SlidingWindow(capacity): the capacity is stored as it is given
NewSlidingWindow(capacity) ==
  /\ maxSize' = capacity
  /\ data' = <<>>
  /\ pushed' = <<>>

\* date.toLocaleTimeString([], {hour: '2-digit', minute: '2-digit'}) of a
\* timestamp in ms: the hour and the minute of the day (read in UTC)
toLocaleTimeString(timestamp) ==
  [hour |-> (timestamp \div 3600000) % 24, minute |-> (timestamp \div 60000) % 60]
\* StockPriceWindow.getLabels(count): a label for every step-th point from
\* the first
getLabels(d, count) ==
  IF Len(d) = 0 THEN <<>>
  ELSE LET step == IF Len(d) \div count > 1 THEN Len(d) \div count ELSE 1
           taken == {i \in 0..(Len(d) - 1) : i % step = 0}
       IN [n \in 1..Cardinality(taken) |-> toLocaleTimeString(d[(n - 1) * step + 1].timestamp)]

WindowInit == maxSize \in 1..MaxCap /\ data = <<>> /\ pushed = <<>>
\* no window under test
WindowIdle == maxSize = 1 /\ data = <<>> /\ pushed = <<>>

Push(item) ==
  /\ Len(pushed) < MaxPushes
  /\ data' = push(data, maxSize, item)
  /\ pushed' = Append(pushed, item)
  /\ UNCHANGED maxSize

PushMany(items) ==
  /\ Len(pushed) + Len(items) <= MaxPushes
  /\ data' = pushMany(data, maxSize, items)
  /\ pushed' = pushed \o items
  /\ UNCHANGED maxSize

ClearAllButNewest ==
  /\ data' = (IF data = <<>> THEN <<>> ELSE <<data[Len(data)]>>)
  /\ pushed' = <<>>
  /\ UNCHANGED maxSize
\* clear(): this.data = []
Clear ==
  /\ data' = <<>>
  /\ pushed' = <<>>
  /\ UNCHANGED maxSize

WPush == \E item \in 1..MaxItem : Push(item) /\ UNCHANGED <<timeVars, updaterVars, wrapVars, providerVars, storeVars, callVars>>
WPushMany == \E items \in SeqsUpTo(1..MaxItem, MaxMany) : PushMany(items) /\ UNCHANGED <<timeVars, updaterVars, wrapVars, providerVars, storeVars, callVars>>
WClear == Clear /\ UNCHANGED <<timeVars, updaterVars, wrapVars, providerVars, storeVars, callVars>>

\* -------------------------------------------------- createThrottledUpdater
\* createThrottledUpdater(updateFn, throttleMs): the closure it returns holds
\* an empty map and a clear flag; the interval is taken as it is given
NewThrottledUpdater(ms) ==
  /\ throttleMs' = ms
  /\ updaterPending' = EmptyMap /\ isScheduled' = FALSE
  /\ UNCHANGED <<recorded, cycleLog, cycles, flushCount, lastFlush, delivered, latest>>

\* a record schedules a flush only when none is scheduled
ShouldScheduleAlways == TRUE
ShouldSchedule == ~isScheduled

\* the batch handed to updateFn: a copy of the pending map taken before the clear
FlushBatchAfterClear == EmptyMap
FlushBatch == updaterPending

NoFlush == [at |-> 0, batch |-> EmptyMap, log |-> <<>>]

UpdaterInit ==
  /\ throttleMs \in 1..MaxInterval
  /\ updaterPending = EmptyMap /\ isScheduled = FALSE
  /\ recorded = 0 /\ cycleLog = <<>> /\ cycles = 0 /\ flushCount = 0
  /\ lastFlush = NoFlush /\ delivered = [k \in Keys |-> 0]
  /\ latest = [k \in Keys |-> 0]

\* no updater constructed
UpdaterIdle ==
  /\ throttleMs = 0
  /\ updaterPending = EmptyMap /\ isScheduled = FALSE
  /\ recorded = 0 /\ cycleLog = <<>> /\ cycles = 0 /\ flushCount = 0
  /\ lastFlush = NoFlush /\ delivered = [k \in Keys |-> 0]
  /\ latest = [k \in Keys |-> 0]

\* the returned (key, value) => void; the value is the ordinal of the call
RecordCall(key) ==
  /\ recorded < MaxRecords
  /\ updaterPending' = MapSet(updaterPending, key, recorded + 1)
  /\ IF ShouldSchedule
       THEN /\ isScheduled' = TRUE
            /\ timers' = setTimeout(timers, "updater", <<>>, throttleMs)
            /\ nextTimerId' = nextTimerId + 1
       ELSE UNCHANGED <<isScheduled, timers, nextTimerId>>
  /\ recorded' = recorded + 1
  /\ cycleLog' = Append(cycleLog, <<key, recorded + 1, now>>)
  /\ cycles' = IF Armed("updater") = {} THEN cycles + 1 ELSE cycles
  /\ latest' = [latest EXCEPT ![key] = recorded + 1]
  /\ UNCHANGED <<now, throttleMs, flushCount, lastFlush, delivered>>

\* a call of the updater under test
Record(key) == throttleMs > 0 /\ RecordCall(key)

\* the setTimeout callback: copy, clear, reset the flag, updateFn(updates)
UpdaterTimer(t) ==
  /\ NextDue(t) /\ t.cb = "updater"
  /\ timers' = timers \ {t}
  /\ updaterPending' = EmptyMap
  /\ isScheduled' = FALSE
  /\ flushCount' = flushCount + 1
  /\ lastFlush' = [at |-> now, batch |-> FlushBatch, log |-> cycleLog]
  /\ delivered' = [k \in Keys |-> IF k \in DOMAIN FlushBatch THEN FlushBatch[k] ELSE delivered[k]]
  /\ cycleLog' = <<>>
  /\ UNCHANGED <<now, nextTimerId, throttleMs, recorded, cycles, latest>>

\* Maps are objects: `own` tells whether a map is an object of its own or the
\* pendingUpdates map itself.  new Map(pendingUpdates) is a map of its own
\* with the entries pendingUpdates has at that moment.
sameMap(entries) == [own |-> FALSE, entries |-> entries]
newMap(entries) == [own |-> TRUE, entries |-> entries]
\* the entries a map has now
EntriesOf(map) == IF map.own THEN map.entries ELSE updaterPending

\* the setTimeout callback when updateFn, while it runs, calls the returned
\* function again with (key, value): the copy is taken, the pending map is
\* cleared and the flag reset before updateFn runs, so the inner call finds
\* isScheduled false, sets its value in the emptied map and arms a timer
UpdaterTimerRecording(t, key) ==
  /\ NextDue(t) /\ t.cb = "updater"
  /\ recorded < MaxRecords
  /\ LET updates == newMap(FlushBatch)
         scheduledAtCall == FALSE
     IN /\ output' = Some(updates)
        /\ lastFlush' = [at |-> now, batch |-> updates.entries, log |-> cycleLog]
        /\ delivered' = [k \in Keys |-> IF k \in DOMAIN updates.entries THEN updates.entries[k] ELSE delivered[k]]
        /\ updaterPending' = MapSet(EmptyMap, key, recorded + 1)
        /\ IF ~scheduledAtCall
             THEN /\ isScheduled' = TRUE
                  /\ timers' = setTimeout(timers \ {t}, "updater", <<>>, throttleMs)
                  /\ nextTimerId' = nextTimerId + 1
             ELSE /\ isScheduled' = scheduledAtCall
                  /\ timers' = timers \ {t}
                  /\ UNCHANGED nextTimerId
  /\ flushCount' = flushCount + 1
  /\ recorded' = recorded + 1
  /\ cycleLog' = <<<<key, recorded + 1, now, "updateFn">>>>
  /\ cycles' = cycles + 1
  /\ latest' = [latest EXCEPT ![key] = recorded + 1]
  /\ UNCHANGED <<now, throttleMs, input>>

\* ----------------------------------------------------------------- throttle
\* `if (!inThrottle)`: a call goes through to func when no window is open
Leading == ~inThrottle

\* `if (lastArgs)`: an arguments array is truthy, the empty one too
TrailingNonEmpty == lastArgs # None /\ lastArgs[1] # <<>>
Trailing == lastArgs # None

ThrottleInit ==
  /\ limit \in 1..MaxInterval /\ inThrottle = FALSE /\ lastArgs = None
  /\ wait = 0 /\ timeoutId = 0
  /\ callLog = <<>> /\ fnCalls = <<>>

\* the function throttle() returns
ThrottledCall(args) ==
  /\ limit > 0
  /\ callLog' = Append(callLog, [at |-> now, args |-> args, quiet |-> Armed("throttle") = {}])
  /\ IF Leading
       THEN /\ fnCalls' = Append(fnCalls, [at |-> now, args |-> args, by |-> "call", n |-> Len(callLog) + 1])
            /\ inThrottle' = TRUE
            /\ timers' = setTimeout(timers, "throttle", <<>>, limit)
            /\ nextTimerId' = nextTimerId + 1
            /\ UNCHANGED lastArgs
       ELSE /\ lastArgs' = Some(args)
            /\ UNCHANGED <<fnCalls, inThrottle, timers, nextTimerId>>
  /\ UNCHANGED <<now, limit, wait, timeoutId>>

\* its setTimeout callback
ThrottleTimer(t) ==
  /\ NextDue(t) /\ t.cb = "throttle"
  /\ timers' = timers \ {t}
  /\ inThrottle' = FALSE
  /\ IF Trailing
       THEN /\ fnCalls' = Append(fnCalls, [at |-> now, args |-> lastArgs[1], by |-> "timer", n |-> Len(callLog)])
            /\ lastArgs' = None
       ELSE UNCHANGED <<fnCalls, lastArgs>>
  /\ UNCHANGED <<now, nextTimerId, limit, wait, timeoutId, callLog>>

\* ----------------------------------------------------------------- debounce
\* `if (timeoutId)`: the armed timer is cleared before a new one is set
DebounceClearsNever == FALSE
DebounceClears == timeoutId # 0

DebounceInit ==
  /\ wait \in 1..MaxInterval /\ timeoutId = 0
  /\ limit = 0 /\ inThrottle = FALSE /\ lastArgs = None
  /\ callLog = <<>> /\ fnCalls = <<>>

\* the function debounce() returns
DebouncedCall(args) ==
  /\ wait > 0
  /\ callLog' = Append(callLog, [at |-> now, args |-> args, quiet |-> Armed("debounce") = {}])
  /\ timers' = setTimeout(IF DebounceClears THEN clearTimeout(timers, timeoutId) ELSE timers,
                          "debounce", args, wait)
  /\ timeoutId' = nextTimerId
  /\ nextTimerId' = nextTimerId + 1
  /\ UNCHANGED <<now, wait, limit, inThrottle, lastArgs, fnCalls>>

\* its setTimeout callback, which holds the arguments of the call that armed it
DebounceTimer(t) ==
  /\ NextDue(t) /\ t.cb = "debounce"
  /\ timers' = timers \ {t}
  /\ fnCalls' = Append(fnCalls, [at |-> now, args |-> t.args, by |-> "timer", n |-> Len(callLog)])
  /\ timeoutId' = 0
  /\ UNCHANGED <<now, nextTimerId, wait, limit, inThrottle, lastArgs, callLog>>

\* the arguments of the next call: none, or the ordinal of the call
NextArgs == {<<>>, <<Len(callLog) + 1>>}

\* ---------------------------------------------------- StockWebSocketService
\* the service as the module constructs it; no socket exists
NewService ==
  [ws |-> None, isConnected |-> FALSE, reconnectAttempts |-> 0,
   simulationInterval |-> None, isSimulating |-> FALSE,
   simulationFallbackTimer |-> None]
\* effectRan: the provider's effect has run (its dependencies are stable
\* callbacks, so it runs once, when the provider mounts);
\* disconnected: disconnect() ran and connect() has not been called from
\* outside since; lateConnects: connect() calls made then by a reconnect timer;
\* closes, scheduled, gaveUp: close events, reconnects scheduled and "failed to
\* connect" errors since the last open; fed: the source of each tick handed to
\* onUpdate; startedAfter: the real ticks fed before startSimulation() ran
NewServiceLog ==
  [effectRan |-> FALSE, disconnected |-> FALSE, lateConnects |-> 0, closes |-> 0,
   scheduled |-> 0, gaveUp |-> 0, fed |-> <<>>, startedAfter |-> None]
ServiceInit == service = NewService /\ sockets = <<>> /\ serviceLog = NewServiceLog

\* connect(): this.ws = new WebSocket(url), with the four handlers set on it
connect(svc, socks) ==
  [service |-> [svc EXCEPT !.ws = Some(Len(socks) + 1)],
   sockets |-> Append(socks, "CONNECTING")]
\* WebSocket.close(): a socket that is not closed yet starts closing
close(readyState) == IF readyState \in {"CONNECTING", "OPEN"} THEN "CLOSING" ELSE readyState
\* disconnect(): close the current socket and forget it; its handlers stay set
disconnect(svc, socks) ==
  [service |-> [svc EXCEPT !.ws = None, !.isConnected = FALSE],
   sockets |-> IF svc.ws # None THEN [socks EXCEPT ![svc.ws[1]] = close(@)] ELSE socks]
\* attemptReconnect(): `if (this.reconnectAttempts < this.maxReconnectAttempts)`
MayReconnectInclusive(attempts) == attempts <= maxReconnectAttempts
MayReconnect(attempts) == attempts < maxReconnectAttempts
\* the fallback timer's test before startSimulation()
StartsSimulation(svc, log) == ~svc.isSimulating

\* the provider's effect: setCallbacks, connect(), the fallback timer
Mount ==
  /\ ~mounted /\ Len(sockets) < MaxSockets /\ ~serviceLog.effectRan
  /\ mounted' = TRUE
  /\ \E c \in {connect(service, sockets)} :
       /\ service' = [c.service EXCEPT !.simulationFallbackTimer = Some(nextTimerId)]
       /\ sockets' = c.sockets
  /\ timers' = setTimeout(timers, "fallback", <<>>, FALLBACK_DELAY)
  /\ nextTimerId' = nextTimerId + 1
  /\ serviceLog' = [serviceLog EXCEPT !.disconnected = FALSE, !.effectRan = TRUE]
  /\ UNCHANGED now

\* ws.onopen
SocketOpen(id) ==
  /\ sockets[id] = "CONNECTING"
  /\ sockets' = [sockets EXCEPT ![id] = "OPEN"]
  /\ service' = [service EXCEPT !.isConnected = TRUE, !.reconnectAttempts = 0]
  /\ serviceLog' = [serviceLog EXCEPT !.closes = 0, !.scheduled = 0, !.gaveUp = 0]
  /\ UNCHANGED <<mounted, timeVars>>

\* ws.onmessage with a trade message: onUpdate(trade.s, dataPoint) for each trade
SocketMessage(id) ==
  /\ sockets[id] = "OPEN"
  /\ Len(serviceLog.fed) < MaxFed
  /\ serviceLog' = [serviceLog EXCEPT !.fed = Append(@, "real")]
  /\ UNCHANGED <<service, sockets, mounted, timeVars>>

\* ws.onclose, when the connection fails, is lost or has been closed:
\* isConnected = false, then attemptReconnect()
SocketClose(id) ==
  /\ sockets[id] # "CLOSED"
  /\ sockets' = [sockets EXCEPT ![id] = "CLOSED"]
  /\ IF MayReconnect(service.reconnectAttempts)
       THEN /\ service' = [service EXCEPT !.isConnected = FALSE, !.reconnectAttempts = @ + 1]
            /\ timers' = setTimeout(timers, "reconnect", <<>>, reconnectDelay)
            /\ nextTimerId' = nextTimerId + 1
            /\ serviceLog' = [serviceLog EXCEPT !.closes = @ + 1, !.scheduled = @ + 1]
       ELSE /\ service' = [service EXCEPT !.isConnected = FALSE]
            /\ serviceLog' = [serviceLog EXCEPT !.closes = @ + 1, !.gaveUp = @ + 1]
            /\ UNCHANGED <<timers, nextTimerId>>
  /\ UNCHANGED <<mounted, now>>

\* the timer of attemptReconnect: () => this.connect()
ReconnectTimer(t) ==
  /\ NextDue(t) /\ t.cb = "reconnect"
  /\ Len(sockets) < MaxSockets
  /\ timers' = timers \ {t}
  /\ \E c \in {connect(service, sockets)} : service' = c.service /\ sockets' = c.sockets
  /\ serviceLog' = [serviceLog EXCEPT !.lateConnects = IF serviceLog.disconnected THEN @ + 1 ELSE @]
  /\ UNCHANGED <<mounted, now, nextTimerId>>

\* the provider's fallback timer: startSimulation() unless simulating already;
\* startSimulation arms the interval, of a period drawn once
SimulationPeriods == {800, 1499}
FallbackTimer(t) ==
  /\ NextDue(t) /\ t.cb = "fallback"
  /\ IF StartsSimulation(service, serviceLog)
       THEN \E period \in SimulationPeriods :
              /\ service' = [service EXCEPT !.isSimulating = TRUE, !.simulationInterval = Some(nextTimerId)]
              /\ timers' = setTimeout(timers \ {t}, "simulation", period, period)
              /\ nextTimerId' = nextTimerId + 1
              /\ serviceLog' = [serviceLog EXCEPT
                                  !.startedAfter = Some(Cardinality({i \in DOMAIN serviceLog.fed : serviceLog.fed[i] = "real"}))]
       ELSE /\ timers' = timers \ {t}
            /\ UNCHANGED <<service, nextTimerId, serviceLog>>
  /\ UNCHANGED <<sockets, mounted, now>>

\* the interval of startSimulation: one to three onUpdate calls; the interval
\* keeps its id and comes due again a period later
SimulationTimer(t) ==
  /\ NextDue(t) /\ t.cb = "simulation"
  /\ \E numUpdates \in 1..3 :
       /\ Len(serviceLog.fed) + numUpdates <= MaxFed
       /\ serviceLog' = [serviceLog EXCEPT !.fed = @ \o [i \in 1..numUpdates |-> "simulated"]]
  /\ timers' = (timers \ {t}) \cup {[t EXCEPT !.at = now + t.args]}
  /\ UNCHANGED <<service, sockets, mounted, now, nextTimerId>>

\* the cleanup of the provider's effect: clearTimeout(simulationFallbackTimer),
\* stopSimulation(), disconnect()
Unmount ==
  /\ mounted
  /\ mounted' = FALSE
  /\ timers' = {t \in timers :
                  /\ Some(t.id) # service.simulationFallbackTimer
                  /\ Some(t.id) # service.simulationInterval}
  /\ \E d \in {disconnect([service EXCEPT !.simulationInterval = None, !.isSimulating = FALSE], sockets)} :
       service' = d.service /\ sockets' = d.sockets
  /\ serviceLog' = [serviceLog EXCEPT !.disconnected = TRUE]
  /\ UNCHANGED <<now, nextTimerId>>

\* ------------------------------------------------------------ StockProvider
ProviderInit ==
  /\ ServiceInit
  /\ pendingUpdates = EmptyMap /\ mounted = TRUE
  /\ tickLog = <<>> /\ dispatches = <<>> /\ teardownMark = 0
  /\ limit = UI_UPDATE_THROTTLE_MS /\ inThrottle = FALSE /\ lastArgs = None
  /\ wait = 0 /\ timeoutId = 0
  /\ callLog = <<>> /\ fnCalls = <<>>

\* flushUpdates on the pending map `pend`: dispatch a copy and clear, when not empty
flushUpdatesNoClear(pend, n, sync) ==
  IF DOMAIN pend # {}
    THEN /\ dispatches' = Append(dispatches, [at |-> now, batch |-> pend, n |-> n, sync |-> sync])
         /\ pendingUpdates' = pend
    ELSE /\ pendingUpdates' = pend
         /\ UNCHANGED dispatches
flushUpdates(pend, n, sync) ==
  IF DOMAIN pend # {}
    THEN /\ dispatches' = Append(dispatches, [at |-> now, batch |-> pend, n |-> n, sync |-> sync])
         /\ pendingUpdates' = EmptyMap
    ELSE /\ pendingUpdates' = pend
         /\ UNCHANGED dispatches

\* handleStockUpdate(symbol, dataPoint): buffer the tick, then throttledFlush();
\* the data point is the ordinal of the tick.  The service keeps the callback
\* after the provider's cleanup, and a socket it reconnects then still
\* delivers ticks.
handleStockUpdate(symbol) ==
  /\ tickLog' = Append(tickLog, [key |-> symbol, at |-> now])
  /\ ThrottledCall(<<>>)
  /\ IF Leading
       THEN flushUpdates(MapSet(pendingUpdates, symbol, Len(tickLog) + 1), Len(tickLog) + 1, TRUE)
       ELSE /\ pendingUpdates' = MapSet(pendingUpdates, symbol, Len(tickLog) + 1)
            /\ UNCHANGED dispatches
  /\ UNCHANGED <<mounted, teardownMark, serviceVars>>

\* the throttle timer of throttledFlush
FlushTimer(t) ==
  /\ ThrottleTimer(t)
  /\ IF Trailing
       THEN flushUpdates(pendingUpdates, Len(tickLog), FALSE)
       ELSE UNCHANGED <<pendingUpdates, dispatches>>
  /\ UNCHANGED <<mounted, tickLog, teardownMark, serviceVars>>

\* the cleanup of the provider's effect, as the update pipeline sees it: the
\* throttle timer and pendingUpdates are not touched
Teardown ==
  /\ mounted
  /\ mounted' = FALSE
  /\ teardownMark' = Len(dispatches)
  /\ UNCHANGED <<pendingUpdates, tickLog, dispatches, timeVars, wrapVars, serviceVars>>

\* ------------------------------------------------------------ idle parts
WrapIdle ==
  /\ limit = 0 /\ inThrottle = FALSE /\ lastArgs = None
  /\ wait = 0 /\ timeoutId = 0
  /\ callLog = <<>> /\ fnCalls = <<>>

ProviderIdle ==
  /\ ServiceInit
  /\ pendingUpdates = EmptyMap /\ mounted = FALSE
  /\ tickLog = <<>> /\ dispatches = <<>> /\ teardownMark = 0

\* ------------------------------------------------------------ stockReducer
\* Amounts of money are held in thousandths, so that rounding to two decimals
\* is visible.  A number that need not be finite is v / per, NaN or +-Infinity.
Num(v, per) == [kind |-> "num", v |-> v, per |-> per]
NaN == [kind |-> "NaN", v |-> 0, per |-> 1]
Infinity(sgn) == [kind |-> "Infinity", v |-> sgn, per |-> 1]
Sign(x) == IF x > 0 THEN 1 ELSE IF x < 0 THEN 0 - 1 ELSE 0
Abs(x) == IF x < 0 THEN 0 - x ELSE x
\* a / b rounded to the nearest integer, halves away from zero
RoundDiv(a, b) == Sign(a) * Sign(b) * ((2 * Abs(a) + Abs(b)) \div (2 * Abs(b)))
\* parseFloat(x.toFixed(2)) of an amount in thousandths
toFixed2(x) == 10 * RoundDiv(x, 10)
\* (change / base) * 100 in IEEE arithmetic: a zero base gives NaN or Infinity
percentOf(change, base) ==
  IF base = 0
  THEN (IF change = 0 THEN NaN ELSE Infinity(Sign(change)))
  ELSE Num(change * 100, base)
\* parseFloat(x.toFixed(2)) of a percentage: "NaN" and "Infinity" parse back
toFixed2Pct(x) == IF x.kind = "num" THEN Num(RoundDiv(x.v * 100, x.per), 100) ELSE x

\* x - y, -x and the sign of x in IEEE arithmetic (per is positive)
Minus(x, y) ==
  IF x.kind = "NaN" \/ y.kind = "NaN" THEN NaN
  ELSE IF x.kind = "Infinity" THEN (IF y.kind = "Infinity" /\ y.v = x.v THEN NaN ELSE x)
  ELSE IF y.kind = "Infinity" THEN Infinity(0 - y.v)
  ELSE Num(x.v * y.per - y.v * x.per, x.per * y.per)
Negate(x) ==
  IF x.kind = "NaN" THEN NaN
  ELSE IF x.kind = "Infinity" THEN Infinity(0 - x.v)
  ELSE Num(0 - x.v, x.per)
\* x >= y and x <= y: false when either is NaN
Geq(x, y) ==
  /\ x.kind # "NaN" /\ y.kind # "NaN"
  /\ IF x.kind = "Infinity" THEN x.v = 1 \/ (y.kind = "Infinity" /\ y.v = 0 - 1)
     ELSE IF y.kind = "Infinity" THEN y.v = 0 - 1
     ELSE x.v * y.per >= y.v * x.per
Leq(x, y) == Geq(y, x)

\* the symbols ticks may name: those of the stocks, and one that is not held
Symbols == Keys \cup {"X"}
\* the prices ticks carry, in thousandths
Prices == {0, 1004}
DataPoints(n) == {[timestamp |-> n, price |-> p, volume |-> 1] : p \in Prices}
\* the data point onmessage builds from a trade that lacks `t`
MalformedPoint == [price |-> 1004, volume |-> 1]

\* a Stock as generateInitialStocks builds it, from a history of len points
SeedLens == {0, PRICE_HISTORY_MAX_POINTS - 1, PRICE_HISTORY_MAX_POINTS + 1}
SeedHistory(len) == [i \in 1..len |-> [timestamp |-> i - len - 1, price |-> 1000, volume |-> 1]]
SeedStock(symbol, len) ==
  [symbol |-> symbol, currentPrice |-> 1000, previousPrice |-> 1000,
   change |-> 0, changePercent |-> Num(0, 100), volume |-> len,
   high24h |-> 1000, low24h |-> 1000, priceHistory |-> SeedHistory(len)]

\* generatePriceHistory: points a step apart that end before now; here the
\* first price, the prices between and the last price are chosen
HistoryOf(len, first, between, last) ==
  [i \in 1..len |-> [timestamp |-> i - len - 1,
                     price |-> IF i = 1 THEN first ELSE IF i = len THEN last ELSE between,
                     volume |-> 1]]
\* the Stock generateInitialStocks builds from a price history
generateStock(symbol, basePrice, priceHistory) ==
  LET currentPrice == IF Len(priceHistory) > 0 THEN priceHistory[Len(priceHistory)].price ELSE basePrice
      firstPrice == IF Len(priceHistory) > 0 THEN priceHistory[1].price ELSE basePrice
      change == toFixed2(currentPrice - firstPrice)
      prices == {priceHistory[i].price : i \in DOMAIN priceHistory}
  IN [symbol |-> symbol, currentPrice |-> currentPrice, previousPrice |-> firstPrice,
      change |-> change, changePercent |-> toFixed2Pct(percentOf(change, firstPrice)),
      volume |-> Len(priceHistory),      \* the sum of the volumes, 1 a point
      high24h |-> IF Len(priceHistory) > 0 THEN MaxOf(prices) ELSE basePrice,
      low24h |-> IF Len(priceHistory) > 0 THEN MinOf(prices) ELSE basePrice,
      priceHistory |-> priceHistory]

initialState == [stocks |-> EmptyMap, priceWindows |-> EmptyMap]

\* case 'SET_STOCKS': payload.forEach sets, for each symbol, the stock and a
\* new window filled from its priceHistory; a later stock of the same symbol
\* replaces an earlier one
setStocks(payload) ==
  LET symbols == {payload[i].symbol : i \in DOMAIN payload}
      stockOf(symbol) == payload[MaxOf({i \in DOMAIN payload : payload[i].symbol = symbol})]
      windowOf(stock) == IF Len(stock.priceHistory) > 0
                         THEN pushMany(<<>>, PRICE_HISTORY_MAX_POINTS, stock.priceHistory)
                         ELSE <<>>
  IN [stocks |-> [symbol \in symbols |-> stockOf(symbol)],
      priceWindows |-> [symbol \in symbols |-> windowOf(stockOf(symbol))]]

updatedStockStale(stock, priceWindow, dataPoint) ==
  LET previousPrice == stock.previousPrice
      change == dataPoint.price - previousPrice
      changePercent == percentOf(change, previousPrice)
  IN [stock EXCEPT !.currentPrice = dataPoint.price,
                   !.previousPrice = previousPrice,
                   !.change = toFixed2(change),
                   !.changePercent = toFixed2Pct(changePercent),
                   !.volume = stock.volume + dataPoint.volume,
                   !.high24h = IF stock.high24h >= dataPoint.price THEN stock.high24h ELSE dataPoint.price,
                   !.low24h = IF stock.low24h <= dataPoint.price THEN stock.low24h ELSE dataPoint.price,
                   !.priceHistory = getAll(priceWindow)]
\* A field that holds no number is left out of the record: that is undefined
\* for a data point's price and a stock's currentPrice and previousPrice, and
\* NaN for a stock's change, high24h and low24h.
Holds(record, field) == field \in DOMAIN record
\* the updatedStock object when dataPoint.price or stock.currentPrice is
\* undefined: x - undefined, Math.max(x, undefined) and Math.max(NaN, x) are NaN
updatedStockNaN(stock, priceWindow, dataPoint) ==
  LET left == {"currentPrice", "previousPrice", "change", "high24h", "low24h"}
      kept == {field \in left :
                \/ field = "currentPrice" /\ Holds(dataPoint, "price")
                \/ field = "previousPrice" /\ Holds(stock, "currentPrice")
                \/ field \in {"high24h", "low24h"} /\ Holds(stock, field) /\ Holds(dataPoint, "price")}
  IN [field \in (DOMAIN stock \ left) \cup kept |->
        CASE field = "currentPrice" -> dataPoint.price
          [] field = "previousPrice" -> stock.currentPrice
          [] field = "changePercent" -> NaN
          [] field = "volume" -> stock.volume + dataPoint.volume
          [] field = "high24h" -> IF stock.high24h >= dataPoint.price THEN stock.high24h ELSE dataPoint.price
          [] field = "low24h" -> IF stock.low24h <= dataPoint.price THEN stock.low24h ELSE dataPoint.price
          [] field = "priceHistory" -> getAll(priceWindow)
          [] OTHER -> stock[field]]
\* the updatedStock object, built after priceWindow.push(dataPoint)
updatedStock(stock, priceWindow, dataPoint) ==
  IF ~(Holds(dataPoint, "price") /\ Holds(stock, "currentPrice") /\ Holds(stock, "high24h"))
  THEN updatedStockNaN(stock, priceWindow, dataPoint)
  ELSE
  LET previousPrice == stock.currentPrice
      change == dataPoint.price - previousPrice
      changePercent == percentOf(change, previousPrice)
  IN [stock EXCEPT !.currentPrice = dataPoint.price,
                   !.previousPrice = previousPrice,
                   !.change = toFixed2(change),
                   !.changePercent = toFixed2Pct(changePercent),
                   !.volume = stock.volume + dataPoint.volume,
                   !.high24h = IF stock.high24h >= dataPoint.price THEN stock.high24h ELSE dataPoint.price,
                   !.low24h = IF stock.low24h <= dataPoint.price THEN stock.low24h ELSE dataPoint.price,
                   !.priceHistory = getAll(priceWindow)]

\* one tick applied: the stock is read from `old` (state.stocks), the result is
\* set in acc.stocks (newStocks); the window is pushed to in place
applyTickUnguarded(acc, old, symbol, dataPoint) ==
  LET stock == IF symbol \in DOMAIN old THEN old[symbol] ELSE SeedStock(symbol, 0)
      priceWindow == push(IF symbol \in DOMAIN acc.priceWindows THEN acc.priceWindows[symbol] ELSE <<>>,
                          PRICE_HISTORY_MAX_POINTS, dataPoint)
  IN [stocks |-> MapSet(acc.stocks, symbol, updatedStock(stock, priceWindow, dataPoint)),
      priceWindows |-> MapSet(acc.priceWindows, symbol, priceWindow)]
applyTick(acc, old, symbol, dataPoint) ==
  IF symbol \in DOMAIN old /\ symbol \in DOMAIN acc.priceWindows
  THEN LET stock == old[symbol]
           priceWindow == push(acc.priceWindows[symbol], PRICE_HISTORY_MAX_POINTS, dataPoint)
       IN [stocks |-> MapSet(acc.stocks, symbol, updatedStock(stock, priceWindow, dataPoint)),
           priceWindows |-> MapSet(acc.priceWindows, symbol, priceWindow)]
  ELSE acc

batchUpdateKeepsSeries(acc, old, entries) ==
  IF entries = <<>> THEN acc
  ELSE [applyTick(acc, old, Head(entries)[1], Head(entries)[2]) EXCEPT !.priceWindows = acc.priceWindows]
\* case 'UPDATE_STOCK_PRICE'
updateStockPrice(st, symbol, dataPoint) == applyTick(st, st.stocks, symbol, dataPoint)

batchUpdateFirstOnly(acc, old, entries) ==
  IF entries = <<>> THEN acc
  ELSE applyTick(acc, old, Head(entries)[1], Head(entries)[2])
\* case 'BATCH_UPDATE_PRICES': payload.forEach over the entries <<symbol, dataPoint>>
RECURSIVE batchUpdatePrices(_, _, _)
batchUpdatePrices(acc, old, entries) ==
  IF entries = <<>> THEN acc
  ELSE batchUpdatePrices(applyTick(acc, old, Head(entries)[1], Head(entries)[2]), old, Tail(entries))

\* the orders in which a Map holding the keys S may iterate
Orders(S) == {o \in [1..Cardinality(S) -> S] : \A i, j \in DOMAIN o : o[i] = o[j] => i = j}
EntriesIn(payload, order) == [i \in DOMAIN order |-> <<order[i], payload[order[i]]>>]
Entries(payload) == EntriesIn(payload, CHOOSE o \in Orders(DOMAIN payload) : TRUE)

getStock(symbol) == IF symbol \in DOMAIN stocks THEN Some(stocks[symbol]) ELSE None
getPriceHistory(symbol) == IF symbol \in DOMAIN priceWindows THEN getAll(priceWindows[symbol]) ELSE <<>>

\* (change, changePercent) between the oldest and the newest point of a window
getPriceChange(d) ==
  IF Len(d) < 2 THEN [change |-> 0, changePercent |-> Num(0, 100)]
  ELSE [change |-> d[Len(d)].price - d[1].price,
        changePercent |-> percentOf(d[Len(d)].price - d[1].price, d[1].price)]

\* getPrices(): the price of every point, oldest first
getPrices(d) == [i \in DOMAIN getAll(d) |-> getAll(d)[i].price]
getPriceRangeOfEnds(d) ==
  IF Len(d) = 0 THEN [min |-> 0, max |-> 0]
  ELSE [min |-> Min(d[1].price, d[Len(d)].price),
        max |-> MaxOf({d[1].price, d[Len(d)].price})]
\* getPriceRange(): Math.min(...prices) and Math.max(...prices)
getPriceRange(d) ==
  IF Len(getPrices(d)) = 0 THEN [min |-> 0, max |-> 0]
  ELSE [min |-> MinOf({getPrices(d)[i] : i \in DOMAIN getPrices(d)}),
        max |-> MaxOf({getPrices(d)[i] : i \in DOMAIN getPrices(d)})]

Reduced == IF lastAction = None THEN 0 ELSE lastAction[1].n
State == [stocks |-> stocks, priceWindows |-> priceWindows]

StoreInit ==
  /\ stocks = initialState.stocks
  /\ priceWindows = initialState.priceWindows
  /\ lastAction = None

SetStocks(payload) ==
  /\ lastAction = None
  /\ \E st \in {setStocks(payload)} :
       stocks' = st.stocks /\ priceWindows' = st.priceWindows
  /\ lastAction' = Some([type |-> "SET_STOCKS", payload |-> EmptyMap, n |-> 0, before |-> State])

UpdateStockPrice(symbol, dataPoint) ==
  /\ lastAction # None /\ Reduced < MaxUpdates
  /\ \E st \in {updateStockPrice(State, symbol, dataPoint)} :
       stocks' = st.stocks /\ priceWindows' = st.priceWindows
  /\ lastAction' = Some([type |-> "UPDATE_STOCK_PRICE", payload |-> MapSet(EmptyMap, symbol, dataPoint), n |-> Reduced + 1, before |-> State])

BatchUpdatePrices(payload) ==
  /\ lastAction # None /\ Reduced < MaxUpdates
  /\ \E st \in {batchUpdatePrices(State, stocks, Entries(payload))} :
       stocks' = st.stocks /\ priceWindows' = st.priceWindows
  /\ lastAction' = Some([type |-> "BATCH_UPDATE_PRICES", payload |-> payload, n |-> Reduced + 1, before |-> State])

\* the reducer state the provider's dispatches produce: SET_STOCKS of
\* generateInitialStocks() at mount, then each batch in dispatch order; the
\* data point of the n-th tick carries n as its timestamp
HISTORY_POINTS == 50
SampleOf(n) == [timestamp |-> n, price |-> 1000, volume |-> 1]
MountedState == setStocks(<<SeedStock("A", HISTORY_POINTS), SeedStock("B", HISTORY_POINTS)>>)
RECURSIVE Replay(_, _)
Replay(st, ds) ==
  IF ds = <<>> THEN st
  ELSE Replay(batchUpdatePrices(st, st.stocks,
                Entries([k \in DOMAIN Head(ds).batch |-> SampleOf(Head(ds).batch[k])])),
              Tail(ds))

\* ---------------------------------------------------------------- strings
\* A string is the sequence of its character codes (65.. = 'A'.., 97.. = 'a'..,
\* 32 = ' ').
toLowerCase(str) == [i \in 1..Len(str) |-> IF str[i] >= 65 /\ str[i] <= 90 THEN str[i] + 32 ELSE str[i]]
trim(str) ==
  LET inked == {i \in 1..Len(str) : str[i] # 32}
  IN IF inked = {} THEN <<>> ELSE SubSeq(str, MinOf(inked), MaxOf(inked))
startsWith(str, prefix) == Len(prefix) <= Len(str) /\ SubSeq(str, 1, Len(prefix)) = prefix
includes(str, part) == \E i \in 0..(Len(str) - Len(part)) : SubSeq(str, i + 1, i + Len(part)) = part
\* a < b on strings: by character code, a proper prefix first
lessThan(a, b) ==
  \E i \in 1..Len(b) :
    /\ \A j \in 1..(i - 1) : j <= Len(a) /\ a[j] = b[j]
    /\ i > Len(a) \/ a[i] < b[i]
\* a.localeCompare(b) on letters: alphabetical whatever the case; strings that
\* differ in case only are ordered lower case first
localeCompare(a, b) ==
  IF lessThan(toLowerCase(a), toLowerCase(b)) THEN 0 - 1
  ELSE IF lessThan(toLowerCase(b), toLowerCase(a)) THEN 1
  ELSE IF a = b THEN 0
  ELSE IF a[MinOf({i \in 1..Len(a) : a[i] # b[i]})] >= 97 THEN 0 - 1 ELSE 1

\* ------------------------------------------------------- search and filters
\* the elements of seq at the indices in `at`, in order
Pick(seq, at) ==
  [r \in 1..Cardinality(at) |-> seq[CHOOSE i \in at : Cardinality({j \in at : j <= i}) = r]]

\* [...stocks].sort((a, b) => a.name.toLowerCase().localeCompare(b.name.toLowerCase()))
\* Array.prototype.sort is stable: equal names keep their order
sortedByName(list) ==
  LET cmp(a, b) == localeCompare(toLowerCase(a.name), toLowerCase(b.name))
      rank(i) == 1 + Cardinality({j \in DOMAIN list :
                   cmp(list[j], list[i]) < 0 \/ (cmp(list[j], list[i]) = 0 /\ j < i)})
  IN [r \in DOMAIN list |-> list[CHOOSE i \in DOMAIN list : rank(i) = r]]

RECURSIVE firstMatchAny(_, _, _, _, _)
firstMatchAny(list, normalizedPrefix, left, right, firstMatch) ==
  IF left > right THEN firstMatch
  ELSE LET mid == (left + right) \div 2
           midName == toLowerCase(list[mid + 1].name)
       IN IF startsWith(midName, normalizedPrefix) THEN mid
          ELSE IF lessThan(midName, normalizedPrefix)
          THEN firstMatchAny(list, normalizedPrefix, mid + 1, right, firstMatch)
          ELSE firstMatchAny(list, normalizedPrefix, left, mid - 1, firstMatch)

\* the while loop of binarySearchByNamePrefix; indices count from 0
RECURSIVE firstMatchLoop(_, _, _, _, _)
firstMatchLoop(list, normalizedPrefix, left, right, firstMatch) ==
  IF left > right THEN firstMatch
  ELSE LET mid == (left + right) \div 2
           midName == toLowerCase(list[mid + 1].name)
       IN IF startsWith(midName, normalizedPrefix)
          THEN firstMatchLoop(list, normalizedPrefix, left, mid - 1, mid)
          ELSE IF lessThan(midName, normalizedPrefix)
          THEN firstMatchLoop(list, normalizedPrefix, mid + 1, right, firstMatch)
          ELSE firstMatchLoop(list, normalizedPrefix, left, mid - 1, firstMatch)

binarySearchFirstOnly(list, prefix) ==
  IF prefix = <<>> \/ list = <<>> THEN list
  ELSE LET firstMatch == firstMatchLoop(list, toLowerCase(prefix), 0, Len(list) - 1, 0 - 1)
       IN IF firstMatch = 0 - 1 THEN <<>> ELSE <<list[firstMatch + 1]>>
binarySearchByNamePrefix(list, prefix) ==
  IF prefix = <<>> \/ list = <<>> THEN list
  ELSE LET normalizedPrefix == toLowerCase(prefix)
           firstMatch == firstMatchLoop(list, normalizedPrefix, 0, Len(list) - 1, 0 - 1)
           \* the for loop stops at the first name that does not match
           stop == MinOf({Len(list)} \cup {i \in 0..(Len(list) - 1) :
                     i >= firstMatch /\ ~startsWith(toLowerCase(list[i + 1].name), normalizedPrefix)})
       IN IF firstMatch = 0 - 1 THEN <<>> ELSE SubSeq(list, firstMatch + 1, stop)

\* results of the two passes over symbolMatches and prefixMatches: a stock is
\* pushed unless its symbol was seen
Unseen(seq) == Pick(seq, {i \in DOMAIN seq : \A j \in 1..(i - 1) : seq[j].symbol # seq[i].symbol})

UseFallbackNever(results) == FALSE
UseFallback(results) == Len(results) = 0

searchStocks(list, query) ==
  IF query = <<>> \/ trim(query) = <<>> THEN list
  ELSE LET normalizedQuery == trim(toLowerCase(query))
           prefixMatches == binarySearchByNamePrefix(sortedByName(list), normalizedQuery)
           symbolMatches == Pick(list, {i \in DOMAIN list :
                              startsWith(toLowerCase(list[i].symbol), normalizedQuery)})
           results == Unseen(symbolMatches \o prefixMatches)
       IN IF UseFallback(results)
          THEN Pick(list, {i \in DOMAIN list :
                 \/ includes(toLowerCase(list[i].name), normalizedQuery)
                 \/ includes(toLowerCase(list[i].symbol), normalizedQuery)})
          ELSE results

\* the number the comparator of sortStocks returns for (a, b)
comparator(config, a, b) ==
  LET comparison ==
        CASE config.field = "price" -> Num(a.currentPrice - b.currentPrice, 1)
          [] config.field = "changePercent" -> Minus(a.changePercent, b.changePercent)
          [] config.field = "volume" -> Num(a.volume - b.volume, 1)
          [] config.field = "name" -> Num(localeCompare(a.name, b.name), 1)
          [] config.field = "marketCap" -> Num(a.marketCap - b.marketCap, 1)
          [] OTHER -> Num(0, 1)
  IN IF config.direction = "asc" THEN comparison ELSE Negate(comparison)
\* what Array.prototype.sort makes of it: negative, zero or positive, and a
\* NaN counts as zero
SortCompare(config, a, b) ==
  LET v == comparator(config, a, b)
  IN IF v.kind = "NaN" THEN 0 ELSE IF v.kind = "Infinity" THEN v.v ELSE Sign(v.v)

\* [...stocks].sort(comparator): the stable sort of a copy, which is what
\* sort returns when the comparator orders the elements consistently
sortStocks(list, config) ==
  LET cmp(a, b) == SortCompare(config, a, b)
      rank(i) == 1 + Cardinality({j \in DOMAIN list :
                   cmp(list[j], list[i]) < 0 \/ (cmp(list[j], list[i]) = 0 /\ j < i)})
  IN [r \in DOMAIN list |-> list[CHOOSE i \in DOMAIN list : rank(i) = r]]
\* a consistent comparator: its ties are an equivalence and its order carries
\* over them
Consistent(list, config) ==
  LET cmp(i, j) == SortCompare(config, list[i], list[j])
  IN \A i, j, k \in DOMAIN list :
       /\ cmp(i, i) = 0
       /\ cmp(i, j) = 0 - cmp(j, i)
       /\ (cmp(i, j) <= 0 /\ cmp(j, k) <= 0) => cmp(i, k) <= 0
       /\ (cmp(i, j) <= 0 /\ cmp(j, k) < 0) => cmp(i, k) < 0
       /\ (cmp(i, j) < 0 /\ cmp(j, k) <= 0) => cmp(i, k) < 0
\* the arrays sortStocks may return: with a comparator that is not consistent
\* the order sort leaves is up to the engine, any permutation of the copy
sortOutcomes(list, config) ==
  IF Consistent(list, config) THEN {sortStocks(list, config)}
  ELSE {[r \in DOMAIN list |-> list[perm[r]]] :
          perm \in {f \in [DOMAIN list -> DOMAIN list] : \A i, j \in DOMAIN list : f[i] = f[j] => i = j}}

\* result.filter(s => s.<field> >= bound) when the bound is defined
atLeastExclusive(list, bound, field) ==
  IF bound = None THEN list
  ELSE Pick(list, {i \in DOMAIN list :
         IF field = "changePercent"
         THEN Geq(list[i][field], Num(bound[1], 1)) /\ ~Leq(list[i][field], Num(bound[1], 1))
         ELSE list[i][field] > bound[1]})
\* (changePercent need not be finite)
atLeast(list, bound, field) ==
  IF bound = None THEN list
  ELSE Pick(list, {i \in DOMAIN list :
         IF field = "changePercent" THEN Geq(list[i][field], Num(bound[1], 1))
         ELSE list[i][field] >= bound[1]})
atMost(list, bound, field) ==
  IF bound = None THEN list
  ELSE Pick(list, {i \in DOMAIN list :
         IF field = "changePercent" THEN Leq(list[i][field], Num(bound[1], 1))
         ELSE list[i][field] <= bound[1]})

filteredStocksNoMaxPrice(list, filters, sortConfig) ==
  LET searched == IF filters.searchQuery # <<>> THEN searchStocks(list, filters.searchQuery) ELSE list
      byPrice == atLeast(searched, filters.minPrice, "currentPrice")
      byChange == atMost(atLeast(byPrice, filters.minChangePercent, "changePercent"),
                         filters.maxChangePercent, "changePercent")
      byCap == atMost(atLeast(byChange, filters.minMarketCap, "marketCap"),
                      filters.maxMarketCap, "marketCap")
  IN sortStocks(byCap, sortConfig)
filteredStocks(list, filters, sortConfig) ==
  LET searched == IF filters.searchQuery # <<>> THEN searchStocks(list, filters.searchQuery) ELSE list
      byPrice == atMost(atLeast(searched, filters.minPrice, "currentPrice"),
                        filters.maxPrice, "currentPrice")
      byChange == atMost(atLeast(byPrice, filters.minChangePercent, "changePercent"),
                         filters.maxChangePercent, "changePercent")
      byCap == atMost(atLeast(byChange, filters.minMarketCap, "marketCap"),
                      filters.maxMarketCap, "marketCap")
  IN sortStocks(byCap, sortConfig)

\* the stocks searched: symbols "A", "AB", "B"; names "Ab", "A b", "Bab"; one
\* amount per stock stands for its price, change, volume and market cap
SymbolPool == {<<65>>, <<65, 66>>, <<66>>}
NamePool == {<<65, 98>>, <<65, 32, 98>>, <<66, 97, 98>>}
Amounts == {1, 2}
StockOf(symbol, name, amount) ==
  [symbol |-> symbol, name |-> name, currentPrice |-> amount, changePercent |-> Num(amount, 1),
   volume |-> amount, marketCap |-> amount]
StockPool == {StockOf(symbol, name, amount) : symbol \in SymbolPool, name \in NamePool, amount \in Amounts}
\* lists of stocks of distinct symbols, as Array.from(state.stocks.values()) is
ListsOf(pool, n) ==
  UNION {{list \in [1..k -> pool] :
            \A i, j \in 1..k : list[i].symbol = list[j].symbol => i = j} : k \in 0..n}
StockLists(n) ==
  UNION {{list \in [1..k -> StockPool] :
            \A i, j \in 1..k : list[i].symbol = list[j].symbol => i = j} : k \in 0..n}
\* the queries: "", " ", "a", "B", "ab", " Ab", "bb", "a "
Queries == {<<>>, <<32>>, <<97>>, <<66>>, <<97, 98>>, <<32, 65, 98>>, <<98, 98>>, <<97, 32>>}
NoFilters(query) ==
  [searchQuery |-> query, minPrice |-> None, maxPrice |-> None,
   minChangePercent |-> None, maxChangePercent |-> None,
   minMarketCap |-> None, maxMarketCap |-> None]
\* no range, or one of the six bounds set so that it separates the amounts
\* or two bounds set together
FilterChoices(query) ==
  {NoFilters(query)}
    \cup {[NoFilters(query) EXCEPT ![f] = Some(2)] : f \in {"minPrice", "minChangePercent", "minMarketCap"}}
    \cup {[NoFilters(query) EXCEPT ![f] = Some(1)] : f \in {"maxPrice", "maxChangePercent", "maxMarketCap"}}
    \cup {[NoFilters(query) EXCEPT !.minPrice = Some(1), !.maxChangePercent = Some(1)],
          [NoFilters(query) EXCEPT !.minChangePercent = Some(2), !.maxMarketCap = Some(1)]}
SortConfigs == {[field |-> "marketCap", direction |-> "desc"], [field |-> "name", direction |-> "asc"]}

SearchInit ==
  /\ input \in [stocks : StockLists(MaxStocks), query : Queries]
  /\ output = None
Search ==
  /\ output = None
  /\ output' = Some(searchStocks(input.stocks, input.query))
  /\ UNCHANGED input

\* the stocks filtered: those searched, and a stock "B" whose changePercent the
\* reducer left NaN
ViewPool == StockPool \cup {[StockOf(<<66>>, <<65, 98>>, 1) EXCEPT !.changePercent = NaN]}
ViewInit ==
  /\ input \in {[stocks |-> list, filters |-> filters, sortConfig |-> config] :
                  list \in ListsOf(ViewPool, MaxListed),
                  filters \in UNION {FilterChoices(query) : query \in Queries},
                  config \in SortConfigs}
  /\ output = None
View ==
  /\ output = None
  /\ output' = Some(filteredStocks(input.stocks, input.filters, input.sortConfig))
  /\ UNCHANGED input

\* ------------------------------------------------------- binary searches
toUpperCase(str) == [i \in 1..Len(str) |-> IF str[i] >= 97 /\ str[i] <= 122 THEN str[i] - 32 ELSE str[i]]

\* the while loop of binarySearchBySymbol; indices count from 0
RECURSIVE bySymbolLoop(_, _, _, _)
bySymbolLoop(list, targetSymbol, left, right) ==
  IF left > right THEN None
  ELSE LET mid == (left + right) \div 2
           midSymbol == toUpperCase(list[mid + 1].symbol)
       IN IF midSymbol = targetSymbol THEN Some(list[mid + 1])
          ELSE IF lessThan(midSymbol, targetSymbol)
          THEN bySymbolLoop(list, targetSymbol, mid + 1, right)
          ELSE bySymbolLoop(list, targetSymbol, left, mid - 1)

binarySearchBySymbolExact(list, symbol) == bySymbolLoop(list, symbol, 0, Len(list) - 1)
binarySearchBySymbol(list, symbol) == bySymbolLoop(list, toUpperCase(symbol), 0, Len(list) - 1)

\* the stocks looked up: symbols "A", "AB", "ab", "B", "C"
LookupPool == {StockOf(symbol, <<65, 98>>, 1) : symbol \in {<<65>>, <<65, 66>>, <<97, 98>>, <<66>>, <<67>>}}
\* lists of stocks of distinct symbols in the order of their upper-cased symbols
SortedBySymbol(n) ==
  UNION {{list \in [1..k -> LookupPool] :
            \A i, j \in 1..k : i < j =>
              /\ list[i].symbol # list[j].symbol
              /\ ~lessThan(toUpperCase(list[j].symbol), toUpperCase(list[i].symbol))} : k \in 0..n}
\* the symbols asked for: "", "a", "AB", "Ab", "b", "c", "D", "BA"
LookupQueries == {<<>>, <<97>>, <<65, 66>>, <<65, 98>>, <<98>>, <<99>>, <<68>>, <<66, 65>>}

\* the stocks searched by name: names "Ab", "aB", "Abb", "Ba", two of each
NamedPool == {StockOf(<<65>>, name, amount) :
                name \in {<<65, 98>>, <<97, 66>>, <<65, 98, 98>>, <<66, 97>>}, amount \in Amounts}
\* lists of stocks in the order of their lower-cased names
SortedByName(n) ==
  UNION {{list \in [1..k -> NamedPool] :
            \A i, j \in 1..k : i < j =>
              ~lessThan(toLowerCase(list[j].name), toLowerCase(list[i].name))} : k \in 0..n}
\* the prefixes: "", "a", "AB", "abb", "b", "c", " "
Prefixes == {<<>>, <<97>>, <<65, 66>>, <<97, 98, 98>>, <<98>>, <<99>>, <<32>>}

\* the switch of findInsertionPoint: the candidate compared with stocks[mid]
comparisonAlwaysPrice(sortBy, stock, other) == stock.currentPrice - other.currentPrice
insertionComparison(sortBy, stock, other) ==
  CASE sortBy = "symbol" -> localeCompare(stock.symbol, other.symbol)
    [] sortBy = "name" -> localeCompare(stock.name, other.name)
    [] sortBy = "price" -> stock.currentPrice - other.currentPrice
    [] OTHER -> localeCompare(stock.symbol, other.symbol)

RECURSIVE insertionLoopLower(_, _, _, _, _)
insertionLoopLower(list, stock, sortBy, left, right) ==
  IF left < right
  THEN LET mid == (left + right) \div 2
       IN IF insertionComparison(sortBy, stock, list[mid + 1]) <= 0
          THEN insertionLoopLower(list, stock, sortBy, left, mid)
          ELSE insertionLoopLower(list, stock, sortBy, mid + 1, right)
  ELSE left
\* the while loop of findInsertionPoint; indices count from 0
RECURSIVE insertionLoop(_, _, _, _, _)
insertionLoop(list, stock, sortBy, left, right) ==
  IF left < right
  THEN LET mid == (left + right) \div 2
       IN IF insertionComparison(sortBy, stock, list[mid + 1]) < 0
          THEN insertionLoop(list, stock, sortBy, left, mid)
          ELSE insertionLoop(list, stock, sortBy, mid + 1, right)
  ELSE left

findInsertionPointShort(list, stock, sortBy) ==
  IF list = <<>> THEN 0 ELSE insertionLoop(list, stock, sortBy, 0, Len(list) - 1)
findInsertionPoint(list, stock, sortBy) == insertionLoop(list, stock, sortBy, 0, Len(list))

\* the stocks inserted: symbols "A", "B"; names "Ab", "Bab"; amounts 1, 2
InsertPool == {StockOf(symbol, name, amount) :
                 symbol \in {<<65>>, <<66>>}, name \in {<<65, 98>>, <<66, 97, 98>>}, amount \in Amounts}
SortFields == {"symbol", "name", "price"}
\* lists sorted under the comparison of sortBy
SortedUnder(sortBy, n) ==
  UNION {{list \in [1..k -> InsertPool] :
            \A i, j \in 1..k : i < j => insertionComparison(sortBy, list[i], list[j]) <= 0} : k \in 0..n}

\* the stocks sorted: those searched, and per symbol one whose changePercent
\* the reducer left NaN
SortPool == StockPool \cup {[StockOf(symbol, <<65, 98>>, 1) EXCEPT !.changePercent = NaN] : symbol \in SymbolPool}
AllSortConfigs == [field : {"price", "changePercent", "volume", "name", "marketCap"}, direction : {"asc", "desc"}]

StoreIdle == stocks = EmptyMap /\ priceWindows = EmptyMap /\ lastAction = None
CallIdle == input = None /\ output = None

\* ------------------------------------------------------- specifications
URecord == \E k \in Keys : Record(k) /\ UNCHANGED <<storeVars, callVars, windowVars, wrapVars, providerVars>>
UFlush == \E t \in timers : UpdaterTimer(t) /\ UNCHANGED <<storeVars, callVars, windowVars, wrapVars, providerVars>>
Tick == Elapse /\ UNCHANGED <<storeVars, callVars, windowVars, updaterVars, wrapVars, providerVars>>

TCall == \E args \in NextArgs : Len(callLog) < MaxCalls /\ ThrottledCall(args) /\ UNCHANGED <<storeVars, callVars, windowVars, updaterVars, providerVars>>
TFire == \E t \in timers : ThrottleTimer(t) /\ UNCHANGED <<storeVars, callVars, windowVars, updaterVars, providerVars>>
DCall == \E args \in NextArgs : Len(callLog) < MaxCalls /\ DebouncedCall(args) /\ UNCHANGED <<storeVars, callVars, windowVars, updaterVars, providerVars>>
DFire == \E t \in timers : DebounceTimer(t) /\ UNCHANGED <<storeVars, callVars, windowVars, updaterVars, providerVars>>

PTick == \E k \in Keys : Len(tickLog) < MaxTicks /\ handleStockUpdate(k) /\ UNCHANGED <<storeVars, callVars, windowVars, updaterVars>>
PFlush == \E t \in timers : FlushTimer(t) /\ UNCHANGED <<storeVars, callVars, windowVars, updaterVars>>
PTeardown == Teardown /\ UNCHANGED <<storeVars, callVars, windowVars, updaterVars>>
Skip == ElapseToTimer /\ UNCHANGED <<storeVars, callVars, windowVars, updaterVars, wrapVars, providerVars>>

InitWindow == WindowInit /\ TimeInit /\ UpdaterIdle /\ WrapIdle /\ ProviderIdle /\ StoreIdle /\ CallIdle
SpecWindow ==
  /\ InitWindow
  /\ [][WPush \/ WPushMany \/ WClear]_vars

InitUpdater == UpdaterInit /\ TimeInit /\ WindowIdle /\ WrapIdle /\ ProviderIdle /\ StoreIdle /\ CallIdle
SpecUpdater ==
  /\ InitUpdater
  /\ [][URecord \/ UFlush \/ Tick]_vars

InitThrottle == ThrottleInit /\ TimeInit /\ WindowIdle /\ UpdaterIdle /\ ProviderIdle /\ StoreIdle /\ CallIdle
SpecThrottle ==
  /\ InitThrottle
  /\ [][TCall \/ TFire \/ Tick]_vars

InitDebounce == DebounceInit /\ TimeInit /\ WindowIdle /\ UpdaterIdle /\ ProviderIdle /\ StoreIdle /\ CallIdle
SpecDebounce ==
  /\ InitDebounce
  /\ [][DCall \/ DFire \/ Tick]_vars

InitProvider == ProviderInit /\ TimeInit /\ WindowIdle /\ UpdaterIdle /\ StoreIdle /\ CallIdle
SpecProvider ==
  /\ InitProvider
  /\ [][PTick \/ PFlush \/ PTeardown \/ Tick \/ Skip]_vars

RSetStocks ==
  \E la, lb \in SeedLens :
    /\ SetStocks(<<SeedStock("A", la), SeedStock("B", lb)>>)
    /\ UNCHANGED <<timeVars, windowVars, updaterVars, wrapVars, providerVars, callVars>>
RUpdate ==
  \E symbol \in Symbols : \E dataPoint \in DataPoints(Reduced + 1) :
    /\ UpdateStockPrice(symbol, dataPoint)
    /\ UNCHANGED <<timeVars, windowVars, updaterVars, wrapVars, providerVars, callVars>>
RBatch ==
  \E S \in SUBSET Symbols : \E payload \in [S -> DataPoints(Reduced + 1)] :
    /\ BatchUpdatePrices(payload)
    /\ UNCHANGED <<timeVars, windowVars, updaterVars, wrapVars, providerVars, callVars>>

\* a batch whose data point came from a trade without `t`: it has no timestamp
RMalformed ==
  \E symbol \in Symbols :
    /\ BatchUpdatePrices([k \in {symbol} |-> MalformedPoint])
    /\ UNCHANGED <<timeVars, windowVars, updaterVars, wrapVars, providerVars, callVars>>

InitStore == StoreInit /\ TimeInit /\ WindowIdle /\ UpdaterIdle /\ WrapIdle /\ ProviderIdle /\ CallIdle
SpecStore ==
  /\ InitStore
  /\ [][RSetStocks \/ RUpdate \/ RBatch \/ RMalformed]_vars

InitSearch == SearchInit /\ TimeInit /\ WindowIdle /\ UpdaterIdle /\ WrapIdle /\ ProviderIdle /\ StoreIdle
PSearch == Search /\ UNCHANGED <<timeVars, windowVars, updaterVars, wrapVars, providerVars, storeVars>>
SpecSearch ==
  /\ InitSearch
  /\ [][PSearch]_vars

InitView == ViewInit /\ TimeInit /\ WindowIdle /\ UpdaterIdle /\ WrapIdle /\ ProviderIdle /\ StoreIdle
PView == View /\ UNCHANGED <<timeVars, windowVars, updaterVars, wrapVars, providerVars, storeVars>>
SpecView ==
  /\ InitView
  /\ [][PView]_vars

\* one getRecent(n) call on a window in any state pushes can leave it in
InitRecent ==
  /\ maxSize \in 1..MaxCap
  /\ data \in SeqsUpTo(1..MaxItem, maxSize)
  /\ pushed = data
  /\ input \in (0 - MaxCap - 1)..(MaxCap + 1)
  /\ output = None
  /\ TimeInit /\ UpdaterIdle /\ WrapIdle /\ ProviderIdle /\ StoreIdle
GetRecent ==
  /\ output = None
  /\ output' = Some(getRecent(data, input))
  /\ UNCHANGED <<input, timeVars, windowVars, updaterVars, wrapVars, providerVars, storeVars>>
SpecRecent ==
  /\ InitRecent
  /\ [][GetRecent]_vars

\* one binarySearchBySymbol(stocks, symbol) call
InitBySymbol ==
  /\ input \in [stocks : SortedBySymbol(MaxSorted), symbol : LookupQueries]
  /\ output = None
  /\ TimeInit /\ WindowIdle /\ UpdaterIdle /\ WrapIdle /\ ProviderIdle /\ StoreIdle
BySymbol ==
  /\ output = None
  /\ output' = Some(binarySearchBySymbol(input.stocks, input.symbol))
  /\ UNCHANGED <<input, timeVars, windowVars, updaterVars, wrapVars, providerVars, storeVars>>
SpecBySymbol ==
  /\ InitBySymbol
  /\ [][BySymbol]_vars

\* one binarySearchByNamePrefix(stocks, prefix) call
InitByNamePrefix ==
  /\ input \in [stocks : SortedByName(MaxSorted), prefix : Prefixes]
  /\ output = None
  /\ TimeInit /\ WindowIdle /\ UpdaterIdle /\ WrapIdle /\ ProviderIdle /\ StoreIdle
ByNamePrefix ==
  /\ output = None
  /\ output' = Some(binarySearchByNamePrefix(input.stocks, input.prefix))
  /\ UNCHANGED <<input, timeVars, windowVars, updaterVars, wrapVars, providerVars, storeVars>>
SpecByNamePrefix ==
  /\ InitByNamePrefix
  /\ [][ByNamePrefix]_vars

\* one findInsertionPoint(stocks, stock, sortBy) call
InitInsertion ==
  /\ input \in UNION {[stocks : SortedUnder(sortBy, MaxInto), stock : InsertPool, sortBy : {sortBy}] :
                        sortBy \in SortFields}
  /\ output = None
  /\ TimeInit /\ WindowIdle /\ UpdaterIdle /\ WrapIdle /\ ProviderIdle /\ StoreIdle
FindInsertionPoint ==
  /\ output = None
  /\ output' = Some(findInsertionPoint(input.stocks, input.stock, input.sortBy))
  /\ UNCHANGED <<input, timeVars, windowVars, updaterVars, wrapVars, providerVars, storeVars>>
SpecInsertion ==
  /\ InitInsertion
  /\ [][FindInsertionPoint]_vars

\* one sortStocks(stocks, config) call
InitSort ==
  /\ input \in [stocks : ListsOf(SortPool, MaxStocks), sortConfig : AllSortConfigs]
  /\ output = None
  /\ TimeInit /\ WindowIdle /\ UpdaterIdle /\ WrapIdle /\ ProviderIdle /\ StoreIdle
SortStocks ==
  /\ output = None
  /\ \E sorted \in sortOutcomes(input.stocks, input.sortConfig) : output' = Some(sorted)
  /\ UNCHANGED <<input, timeVars, windowVars, updaterVars, wrapVars, providerVars, storeVars>>
SpecSort ==
  /\ InitSort
  /\ [][SortStocks]_vars

\* a SlidingWindow or a throttled updater is constructed with an argument of
\* either sign and then used
ConstructorArgs == (0 - 1)..MaxInterval
InitConstruct ==
  /\ TimeInit /\ WindowIdle /\ UpdaterIdle /\ WrapIdle /\ ProviderIdle /\ StoreIdle /\ CallIdle
CNewWindow ==
  \E capacity \in ConstructorArgs :
    /\ output = None
    /\ NewSlidingWindow(capacity)
    /\ input' = Some(capacity)
    /\ output' = Some("SlidingWindow")
    /\ UNCHANGED <<timeVars, updaterVars, wrapVars, providerVars, storeVars>>
CNewUpdater ==
  \E ms \in ConstructorArgs :
    /\ output = None
    /\ NewThrottledUpdater(ms)
    /\ input' = Some(ms)
    /\ output' = Some("createThrottledUpdater")
    /\ UNCHANGED <<timeVars, windowVars, wrapVars, providerVars, storeVars>>
CPush == output = Some("SlidingWindow") /\ WPush
CRecord ==
  \E k \in Keys :
    /\ output = Some("createThrottledUpdater")
    /\ RecordCall(k)
    /\ UNCHANGED <<storeVars, callVars, windowVars, wrapVars, providerVars>>
SpecConstruct ==
  /\ InitConstruct
  /\ [][CNewWindow \/ CNewUpdater \/ CPush \/ CRecord \/ UFlush \/ Tick]_vars

\* one getLabels(count) call on a price window holding points a minute apart,
\* the first of them at 00:00 or at 00:59
InitLabels ==
  /\ maxSize = PRICE_HISTORY_MAX_POINTS
  /\ \E len \in 0..MaxPoints : \E start \in {0, 59} :
       data = [i \in 1..len |-> [timestamp |-> (start + i - 1) * 60000, price |-> 1000, volume |-> 1]]
  /\ pushed = data
  /\ input \in 1..MaxCount
  /\ output = None
  /\ TimeInit /\ UpdaterIdle /\ WrapIdle /\ ProviderIdle /\ StoreIdle
GetLabels ==
  /\ output = None
  /\ output' = Some(getLabels(data, input))
  /\ UNCHANGED <<input, timeVars, windowVars, updaterVars, wrapVars, providerVars, storeVars>>
SpecLabels ==
  /\ InitLabels
  /\ [][GetLabels]_vars

\* a StockPriceWindow that samples are pushed into; the n-th sample pushed
\* since construction or clear() carries n as its timestamp
SamplePrices == Prices \cup {2000}
SamplesFrom(n, prices) == [i \in DOMAIN prices |-> [timestamp |-> n + i, price |-> prices[i], volume |-> 1]]
SPush ==
  \E price \in SamplePrices :
    /\ Push(SamplesFrom(Len(pushed), <<price>>)[1])
    /\ UNCHANGED <<timeVars, updaterVars, wrapVars, providerVars, storeVars, callVars>>
SPushMany ==
  \E prices \in SeqsUpTo(SamplePrices, MaxMany) :
    /\ PushMany(SamplesFrom(Len(pushed), prices))
    /\ UNCHANGED <<timeVars, updaterVars, wrapVars, providerVars, storeVars, callVars>>
\* clear(); output remembers that the window has been cleared
SClear ==
  /\ Clear
  /\ output' = Some("cleared")
  /\ UNCHANGED <<input, timeVars, updaterVars, wrapVars, providerVars, storeVars>>
\* new StockPriceWindow(maxSize); input remembers the argument
InitPriceWindow ==
  /\ WindowInit /\ TimeInit /\ UpdaterIdle /\ WrapIdle /\ ProviderIdle /\ StoreIdle
  /\ input = Some(maxSize)
  /\ output = None
SpecPriceWindow ==
  /\ InitPriceWindow
  /\ [][SPush \/ SPushMany \/ SClear]_vars

\* one pushMany(items) call on a window in any state pushes can leave it in,
\* with up to one item more than the largest capacity
InitPushMany ==
  /\ maxSize \in 0..MaxCap
  /\ data \in SeqsUpTo(1..MaxItem, maxSize)
  /\ pushed = data
  /\ input \in SeqsUpTo(1..MaxItem, MaxCap + 1)
  /\ output = None
  /\ TimeInit /\ UpdaterIdle /\ WrapIdle /\ ProviderIdle /\ StoreIdle
CallPushMany ==
  /\ output = None
  /\ data' = pushMany(data, maxSize, input)
  /\ pushed' = pushed \o input
  /\ output' = Some(data)
  /\ UNCHANGED <<input, maxSize, timeVars, updaterVars, wrapVars, providerVars, storeVars>>
SpecPushMany ==
  /\ InitPushMany
  /\ [][CallPushMany]_vars

\* A window whose callers keep the arrays getAll() returned and change them.
\* input.arrays holds every array by reference, input.self is the reference
\* this.data holds, input.held are the references getAll() returned;
\* `data` is the contents of this.data.
InitCopy ==
  /\ WindowInit
  /\ input = [arrays |-> [r \in {1} |-> <<>>], self |-> 1, held |-> {}, edits |-> 0]
  /\ output = None
  /\ TimeInit /\ UpdaterIdle /\ WrapIdle /\ ProviderIdle /\ StoreIdle
\* push(item) changes the array this.data refers to
CopyPush ==
  \E item \in 1..MaxItem :
    /\ Len(pushed) <= MaxCap
    /\ Push(item)
    /\ input' = [input EXCEPT !.arrays[input.self] = data']
    /\ UNCHANGED <<output, timeVars, updaterVars, wrapVars, providerVars, storeVars>>
CopyGetAll ==
  /\ Cardinality(input.held) < MaxCopies
  /\ \E got \in {spread(input.arrays, input.self)} :
       /\ input' = [input EXCEPT !.arrays = got.arrays, !.held = @ \cup {got.ref}]
       /\ output' = Some(got.ref)
  /\ UNCHANGED <<timeVars, windowVars, updaterVars, wrapVars, providerVars, storeVars>>
\* the caller appends to, removes from or replaces an element of an array it
\* got; this.data changes if that array is the one this.data refers to
Edited(array) ==
  {Append(array, 0)}
    \cup (IF array = <<>> THEN {} ELSE {SubSeq(array, 1, Len(array) - 1)})
    \cup {[array EXCEPT ![i] = 0] : i \in DOMAIN array}
CopyEdit ==
  \E ref \in input.held : \E edited \in Edited(input.arrays[ref]) :
    /\ input.edits < MaxEdits
    /\ input' = [input EXCEPT !.arrays[ref] = edited, !.edits = @ + 1]
    /\ data' = input'.arrays[input.self]
    /\ UNCHANGED <<maxSize, pushed, output, timeVars, updaterVars, wrapVars, providerVars, storeVars>>
SpecCopy ==
  /\ InitCopy
  /\ [][CopyPush \/ CopyGetAll \/ CopyEdit]_vars

\* The provider's reducer fed as the provider feeds it: SET_STOCKS of
\* generateInitialStocks(), then batches of ticks.  A tick is built by
\* onmessage from a trade; a trade without `p` gives a data point without price.
FeedPrices == {1000, 2000}
FeedLens == {HISTORY_POINTS, PRICE_HISTORY_MAX_POINTS - 1}
FeedPoints(n) == DataPoints(n) \cup {[timestamp |-> n, volume |-> 1]}
FSetStocks ==
  \E len \in FeedLens : \E first, between, last \in FeedPrices :
    /\ SetStocks(<<generateStock("A", 1000, HistoryOf(len, first, between, last)),
                   generateStock("B", 1000, HistoryOf(HISTORY_POINTS, 1000, 1000, 1000))>>)
    /\ UNCHANGED <<timeVars, windowVars, updaterVars, wrapVars, providerVars, callVars>>
FBatch ==
  \E S \in SUBSET Keys : \E payload \in [S -> FeedPoints(Reduced + 1)] :
    /\ S # {}
    /\ BatchUpdatePrices(payload)
    /\ UNCHANGED <<timeVars, windowVars, updaterVars, wrapVars, providerVars, callVars>>
InitFeed == StoreInit /\ TimeInit /\ WindowIdle /\ UpdaterIdle /\ WrapIdle /\ ProviderIdle /\ CallIdle
SpecFeed ==
  /\ InitFeed
  /\ [][FSetStocks \/ FBatch]_vars

\* the throttled updater with an updateFn that may record again while it
\* runs; output is the map updateFn was last handed
XRecord == \E k \in Keys : Record(k) /\ UNCHANGED <<storeVars, callVars, windowVars, wrapVars, providerVars>>
XFlush ==
  \E t \in timers :
    /\ UpdaterTimer(t)
    /\ output' = Some(newMap(FlushBatch))
    /\ UNCHANGED <<input, storeVars, windowVars, wrapVars, providerVars>>
XFlushRecording ==
  \E t \in timers : \E k \in Keys :
    /\ UpdaterTimerRecording(t, k)
    /\ UNCHANGED <<storeVars, windowVars, wrapVars, providerVars>>
InitReentrant == UpdaterInit /\ TimeInit /\ WindowIdle /\ WrapIdle /\ ProviderIdle /\ StoreIdle /\ CallIdle
SpecReentrant ==
  /\ InitReentrant
  /\ [][XRecord \/ XFlush \/ XFlushRecording \/ Tick]_vars

\* the provider mounts, the sockets open, deliver and close as the network
\* has it, timers run when due, and the provider unmounts
SMount == Mount /\ UNCHANGED <<pendingUpdates, tickLog, dispatches, teardownMark, storeVars, callVars, windowVars, updaterVars, wrapVars>>
SOpen == \E id \in DOMAIN sockets : SocketOpen(id) /\ UNCHANGED <<pendingUpdates, tickLog, dispatches, teardownMark, storeVars, callVars, windowVars, updaterVars, wrapVars>>
SMessage == \E id \in DOMAIN sockets : SocketMessage(id) /\ UNCHANGED <<pendingUpdates, tickLog, dispatches, teardownMark, storeVars, callVars, windowVars, updaterVars, wrapVars>>
SClose == \E id \in DOMAIN sockets : SocketClose(id) /\ UNCHANGED <<pendingUpdates, tickLog, dispatches, teardownMark, storeVars, callVars, windowVars, updaterVars, wrapVars>>
SReconnect == \E t \in timers : ReconnectTimer(t) /\ UNCHANGED <<pendingUpdates, tickLog, dispatches, teardownMark, storeVars, callVars, windowVars, updaterVars, wrapVars>>
SFallback == \E t \in timers : FallbackTimer(t) /\ UNCHANGED <<pendingUpdates, tickLog, dispatches, teardownMark, storeVars, callVars, windowVars, updaterVars, wrapVars>>
SSimulate == \E t \in timers : SimulationTimer(t) /\ UNCHANGED <<pendingUpdates, tickLog, dispatches, teardownMark, storeVars, callVars, windowVars, updaterVars, wrapVars>>
SUnmount == Unmount /\ UNCHANGED <<pendingUpdates, tickLog, dispatches, teardownMark, storeVars, callVars, windowVars, updaterVars, wrapVars>>
InitService == ProviderIdle /\ TimeInit /\ WindowIdle /\ UpdaterIdle /\ WrapIdle /\ StoreIdle /\ CallIdle
SpecService ==
  /\ InitService
  /\ [][SMount \/ SOpen \/ SMessage \/ SClose \/ SReconnect \/ SFallback \/ SSimulate \/ SUnmount \/ Skip]_vars

\* one of the two pipelines is constructed and fed; due timers run and time
\* passes, as the runtime's event loop guarantees
InitLive ==
  /\ TimeInit /\ WindowIdle /\ StoreIdle /\ CallIdle
  /\ \/ UpdaterInit /\ WrapIdle /\ ProviderIdle
     \/ UpdaterIdle /\ ProviderInit
SpecLive ==
  /\ InitLive
  /\ [][URecord \/ UFlush \/ PTick \/ PFlush \/ PTeardown \/ Tick \/ Skip]_vars
  /\ WF_vars(UFlush) /\ WF_vars(PFlush) /\ WF_vars(Skip)

\* ------------------------------------------------------------------ claims
\* the last value recorded for each key of a log of <<key, value, time>> records
LastWrites(log) == [k \in {log[i][1] : i \in DOMAIN log} |-> log[MaxOf({i \in DOMAIN log : log[i][1] = k})][2]]

\* C1: every cycle of createThrottledUpdater (first record while idle, until the
\* timer fires) ends in exactly one updateFn call, whose batch maps exactly the
\* keys recorded in the cycle to the last value recorded for each; the batch
\* is never empty.
C1_OneBatchPerCycle ==
  /\ flushCount + (IF Armed("updater") = {} THEN 0 ELSE 1) = cycles
  /\ flushCount > 0 =>
       /\ lastFlush.batch = LastWrites(lastFlush.log)
       /\ DOMAIN lastFlush.batch # {}
C1_Witness ==
  /\ flushCount > 0
  /\ Len(lastFlush.log) >= 3
  /\ DOMAIN lastFlush.batch = Keys
  /\ lastFlush.batch["A"] = 3 /\ lastFlush.batch["B"] = 2

\* C2: createThrottledUpdater has at most one flush timer armed; a record while
\* a flush is scheduled only overwrites the pending value of its key and leaves
\* the timer alone, so the flush runs exactly throttleMs after the first
\* record of the cycle.
C2_FixedDeadline ==
  /\ Cardinality(Armed("updater")) <= 1
  /\ \A t \in Armed("updater") : cycleLog # <<>> /\ t.at = cycleLog[1][3] + throttleMs
  /\ isScheduled => updaterPending = LastWrites(cycleLog)
  /\ flushCount > 0 => lastFlush.at = lastFlush.log[1][3] + throttleMs
C2_Witness ==
  /\ flushCount > 0
  /\ Len(lastFlush.log) >= 2
  /\ lastFlush.log[2][3] > lastFlush.log[1][3]

\* the latest value accepted / dispatched for a key in the provider (0: none yet)
LastTick(k) == MaxOf({0} \cup {n \in DOMAIN tickLog : tickLog[n].key = k})
Dispatched(k) == MaxOf({0} \cup {dispatches[i].batch[k] : i \in {j \in DOMAIN dispatches : k \in DOMAIN dispatches[j].batch}})

\* C3: with timers running when due, every value accepted for a key by
\* record() or handleStockUpdate is eventually delivered by a flush, or a value
\* accepted later for that key is: again and again the value last delivered
\* for the key is the one last accepted (values are numbered in the order of
\* acceptance, so a delivered number >= n is the n-th value or a later one).
C3_NoLossOfLatest ==
  /\ \A k \in Keys : []<>(delivered[k] >= latest[k])
  /\ \A k \in Keys : []<>(Dispatched(k) >= LastTick(k))
C3_Witness ==
  /\ mounted
  /\ Len(tickLog) >= 3
  /\ tickLog[2].key = "A" /\ tickLog[3].key = "A"
  /\ ~callLog[3].quiet
  /\ Dispatched("A") = 3

\* C4: any two invocations of func made through throttle(func, limit) are at
\* least `limit` apart, also when a call arrives right after a trailing-edge
\* invocation.
C4_MinimumSpacing ==
  \A j \in 1..(Len(fnCalls) - 1) : fnCalls[j + 1].at - fnCalls[j].at >= limit

\* the calls made while no throttle window was open, and the window each opens
Quiet == {i \in DOMAIN callLog : callLog[i].quiet}
WindowEnd(i) == IF \E j \in Quiet : j > i THEN MinOf({j \in Quiet : j > i}) - 1 ELSE Len(callLog)
Closed(i) == (\E j \in Quiet : j > i) \/ Armed("throttle") = {}
Invoked(kind, lo, hi) == {j \in DOMAIN fnCalls : fnCalls[j].by = kind /\ fnCalls[j].n \in lo..hi}

\* C5: the first call in a quiet period invokes func at once with its own
\* arguments; calls that arrive before the interval ends do not invoke func,
\* and when the interval ends func is invoked exactly once more, with the
\* arguments of the last of them; with no such call there is no trailing
\* invocation.
C5_LeadingTrailing ==
  /\ \A i \in (DOMAIN callLog) \ Quiet : Invoked("call", i, i) = {}
  /\ \A i \in Quiet :
       /\ \E j \in DOMAIN fnCalls :
            /\ Invoked("call", i, i) = {j}
            /\ fnCalls[j].args = callLog[i].args
            /\ fnCalls[j].at = callLog[i].at
       /\ IF Closed(i) /\ WindowEnd(i) > i
            THEN \E j \in DOMAIN fnCalls :
                   /\ Invoked("timer", i, WindowEnd(i)) = {j}
                   /\ fnCalls[j].args = callLog[WindowEnd(i)].args
                   /\ fnCalls[j].at = callLog[i].at + limit
            ELSE Invoked("timer", i, WindowEnd(i)) = {}
C5_Witness ==
  /\ Len(callLog) >= 4
  /\ Quiet = {1, 4}
  /\ callLog[3].args = <<>>
  /\ Len(fnCalls) = 3
  /\ fnCalls[2].by = "timer"
  /\ Armed("throttle") = {}

\* C6: every call of a debounced function resets the deadline: func is invoked
\* only `wait` after the final call of a burst, exactly once, with that call's
\* arguments, and never while calls keep arriving less than `wait` apart.
C6_Debounce ==
  /\ Cardinality(Armed("debounce")) <= 1
  /\ \A j \in DOMAIN fnCalls :
       /\ fnCalls[j].n \in DOMAIN callLog
       /\ fnCalls[j].args = callLog[fnCalls[j].n].args
       /\ fnCalls[j].at = callLog[fnCalls[j].n].at + wait
       /\ \A i \in DOMAIN fnCalls : i # j => fnCalls[i].n # fnCalls[j].n
  /\ \A n \in DOMAIN callLog :
       (IF n < Len(callLog) THEN callLog[n + 1].at > callLog[n].at + wait
                            ELSE now > callLog[n].at + wait)
         => \E j \in DOMAIN fnCalls : fnCalls[j].n = n
C6_Witness ==
  /\ Len(callLog) >= 3
  /\ callLog[1].at < callLog[2].at
  /\ callLog[2].at < callLog[3].at
  /\ callLog[3].at < callLog[2].at + wait
  /\ Len(fnCalls) = 1
  /\ fnCalls[1].n = 3

\* C7: once the provider is torn down no flush is dispatched any more: the
\* armed throttle timer is cancelled and the pending updates are discarded.
C7_NoFlushAfterTeardown == ~mounted => Len(dispatches) = teardownMark

\* the time of the first tick accepted after the previous dispatch
CycleStart(i) == tickLog[(IF i = 1 THEN 0 ELSE dispatches[i - 1].n) + 1].at

\* C8: in the provider a tick accepted while idle is only buffered: no batch is
\* dispatched inside the tick callback, nor earlier than the flush interval
\* after the first tick of its cycle.
C8_DeferredFlush ==
  \A i \in DOMAIN dispatches :
    /\ ~dispatches[i].sync
    /\ dispatches[i].at >= CycleStart(i) + UI_UPDATE_THROTTLE_MS

\* C9: a window constructed with capacity c > 0 never holds more than c items,
\* after every push, pushMany and clear.
C9_BoundedGrowth == maxSize > 0 => size(data) <= maxSize
C9_Witness == Len(pushed) > maxSize /\ size(data) = maxSize

\* C10: the window holds the last min(k, capacity) items pushed since
\* construction or the last clear(), in insertion order (k = number of pushes):
\* a push onto a full window drops index 0 only and appends at the tail.
C10_FifoEviction == getAll(data) = LastN(pushed, Min(Len(pushed), maxSize))
C10_Witness == Len(pushed) > maxSize + 1 /\ maxSize > 1 /\ data[1] # data[Len(data)]

\* C11: getRecent(n) returns the last min(n, size()) elements, oldest first,
\* for every integer n; for n <= 0 it returns the empty sequence.
C11_GetRecent ==
  output # None =>
    output[1] = IF input <= 0 THEN <<>> ELSE LastN(data, Min(input, size(data)))

\* ---- the reducer's last step: the action, the state before, the entities hit
Act == lastAction[1]
Before == Act.before
IsPriceAction == lastAction # None /\ Act.type \in {"UPDATE_STOCK_PRICE", "BATCH_UPDATE_PRICES"}
\* the symbols of the last action's samples that name an entity
Touched == IF IsPriceAction THEN DOMAIN Act.payload \cap DOMAIN Before.stocks ELSE {}
\* a series after one more sample, the oldest evicted beyond the capacity
Evicting(series, sample) ==
  LastN(Append(series, sample), Min(Len(series) + 1, PRICE_HISTORY_MAX_POINTS))
\* everything C12 states but the delta
UpdatedFields(e, s, k) ==
  /\ stocks[k].previousPrice = e.currentPrice
  /\ stocks[k].currentPrice = s.price
  /\ stocks[k].volume = e.volume + s.volume
  /\ stocks[k].high24h = MaxOf({e.high24h, s.price})
  /\ stocks[k].low24h = MinOf({e.low24h, s.price})
  /\ priceWindows[k] = Evicting(Before.priceWindows[k], s)

\* C12 (as stated): an entity e hit by a sample s, through UPDATE_STOCK_PRICE
\* or as an entry of BATCH_UPDATE_PRICES, gets previousValue' = e.currentValue,
\* currentValue' = s.price, derivedDelta' = s.price - e.currentValue,
\* cumulativeVolume' = e.cumulativeVolume + s.volume, rangeHigh' and rangeLow'
\* the max and min with s.price, and s appended to its series with eviction.
C12_EntityUpdate ==
  \A k \in Touched :
    /\ UpdatedFields(Before.stocks[k], Act.payload[k], k)
    /\ stocks[k].change = Act.payload[k].price - Before.stocks[k].currentPrice
\* C12 (amended): the same, with derivedDelta' the difference rounded to two
\* decimal places: a whole number of hundredths, at most half a hundredth
\* away from s.price - e.currentValue.
C12_EntityUpdateRounded ==
  \A k \in Touched :
    /\ UpdatedFields(Before.stocks[k], Act.payload[k], k)
    /\ stocks[k].change % 10 = 0
    /\ Abs(stocks[k].change - (Act.payload[k].price - Before.stocks[k].currentPrice)) <= 5
\* an entity was hit whose difference is no whole number of hundredths, and
\* its full window evicted a sample
C12_Witness ==
  \E k \in Touched :
    /\ stocks[k].change # stocks[k].currentPrice - stocks[k].previousPrice
    /\ Len(Before.priceWindows[k]) = PRICE_HISTORY_MAX_POINTS
    /\ priceWindows[k][1] # Before.priceWindows[k][1]

\* the ticks whose samples the flushes so far have appended to the series of k
AppendedTicks(k) ==
  LET series == Replay(MountedState, dispatches).priceWindows[k]
  IN [i \in 1..(Len(series) - HISTORY_POINTS) |-> series[HISTORY_POINTS + i].timestamp]
\* no flush lies between the acceptance of tick m and of the later tick n
SameCycle(m, n) == ~\E i \in DOMAIN dispatches : m <= dispatches[i].n /\ dispatches[i].n < n

\* C13: for every key, the samples the flushes append to its series are ticks
\* accepted for that key, in acceptance order and each at most once; of two
\* ticks for the key accepted with no flush between them only the later one
\* is ever appended.
C13_SeriesOrder ==
  \A k \in Keys :
    LET a == AppendedTicks(k)
    IN /\ \A i \in DOMAIN a : a[i] \in DOMAIN tickLog /\ tickLog[a[i]].key = k
       /\ \A i, j \in DOMAIN a : i < j => a[i] < a[j]
       /\ \A m, n \in DOMAIN tickLog :
            (m < n /\ tickLog[m].key = k /\ tickLog[n].key = k /\ SameCycle(m, n))
              => \A i \in DOMAIN a : a[i] # m
C13_Witness ==
  /\ Len(tickLog) >= 3
  /\ tickLog[2].key = "A" /\ tickLog[3].key = "A" /\ SameCycle(2, 3)
  /\ AppendedTicks("A") = <<1, 3>>

\* C14: after SET_STOCKS, with any seeded history, and any price actions, each
\* stock's priceHistory is exactly what getPriceHistory returns for its key,
\* and holds at most PRICE_HISTORY_MAX_POINTS samples.
C14_ConsistentSnapshot ==
  \A k \in DOMAIN stocks :
    /\ stocks[k].priceHistory = getPriceHistory(k)
    /\ Len(stocks[k].priceHistory) <= PRICE_HISTORY_MAX_POINTS

\* C15: a percentage change whose base is 0 is 0, never NaN or an infinity:
\* the changePercent of an entity updated from currentPrice 0, and that of
\* getPriceChange on a window whose oldest price is 0.
C15_ZeroBase ==
  /\ \A k \in Touched :
       Before.stocks[k].currentPrice = 0 => stocks[k].changePercent = Num(0, 100)
  /\ \A k \in DOMAIN priceWindows :
       (Len(priceWindows[k]) >= 2 /\ priceWindows[k][1].price = 0)
         => /\ getPriceChange(priceWindows[k]).changePercent.kind = "num"
            /\ getPriceChange(priceWindows[k]).changePercent.v = 0

\* the samples of a payload that name an entity
Known(payload, st) == [k \in DOMAIN payload \cap DOMAIN st.stocks |-> payload[k]]

\* C16: the key set is fixed by SET_STOCKS; a tick for a key that is not held
\* changes no entity and no series (the action has the effect it has without
\* that tick), and getStock / getPriceHistory of such a key return nothing.
C16_KeySetFixed ==
  lastAction # None =>
    /\ DOMAIN stocks = Keys /\ DOMAIN priceWindows = Keys
    /\ IsPriceAction =>
         /\ Touched = {} => State = Before
         /\ State = batchUpdatePrices(Before, Before.stocks, Entries(Known(Act.payload, Before)))
    /\ \A symbol \in Symbols \ Keys :
         getStock(symbol) = None /\ getPriceHistory(symbol) = <<>>
C16_Witness ==
  /\ IsPriceAction
  /\ "X" \in DOMAIN Act.payload
  /\ Touched # {}
  /\ Reduced = MaxUpdates

\* C17: an action changes only the entities its samples name, each as a single
\* update of that entity would; the state a batch leaves does not depend on
\* the order in which its entries are applied.
C17_Independent ==
  IsPriceAction =>
    /\ \A k \in DOMAIN stocks \ DOMAIN Act.payload :
         stocks[k] = Before.stocks[k] /\ priceWindows[k] = Before.priceWindows[k]
    /\ \A k \in Touched :
         /\ stocks[k] = updateStockPrice(Before, k, Act.payload[k]).stocks[k]
         /\ priceWindows[k] = updateStockPrice(Before, k, Act.payload[k]).priceWindows[k]
    /\ \A o \in Orders(DOMAIN Act.payload) :
         State = batchUpdatePrices(Before, Before.stocks, EntriesIn(Act.payload, o))
C17_Witness ==
  /\ IsPriceAction /\ Act.type = "BATCH_UPDATE_PRICES"
  /\ Touched = Keys
  /\ Act.payload["A"] # Act.payload["B"]
  /\ Cardinality(Orders(DOMAIN Act.payload)) > 1

\* ---- searchStocks
Searched == output # None /\ "query" \in DOMAIN input
NonBlank(query) == trim(query) # <<>>
KeyStarts(e, q) == startsWith(toLowerCase(e.symbol), q)
NameStarts(e, q) == startsWith(toLowerCase(e.name), q)
Contains(e, q) == includes(toLowerCase(e.name), q) \/ includes(toLowerCase(e.symbol), q)
SomePrefix(list, q) == \E i \in DOMAIN list : KeyStarts(list[i], q) \/ NameStarts(list[i], q)
\* out is the key-prefix matches of list in input order, then the name-prefix
\* matches not among them, each once, and nothing else
PrefixTiers(list, q, out) ==
  LET keyHits == Pick(list, {i \in DOMAIN list : KeyStarts(list[i], q)})
      nameOnly == {list[i] : i \in {j \in DOMAIN list : NameStarts(list[j], q) /\ ~KeyStarts(list[j], q)}}
  IN /\ Len(out) = Len(keyHits) + Cardinality(nameOnly)
     /\ SubSeq(out, 1, Len(keyHits)) = keyHits
     /\ {out[i] : i \in (Len(keyHits) + 1)..Len(out)} = nameOnly

ContainsFallback(list, q, out) ==
  IF SomePrefix(list, q)
  THEN \A i \in DOMAIN out : KeyStarts(out[i], q) \/ NameStarts(out[i], q)
  ELSE out = Pick(list, {i \in DOMAIN list : Contains(list[i], q)})

\* C20 as stated: searchStocks uses the contains scan if and only if neither
\* prefix tier yields a result, and the result then is exactly the entities
\* whose name or key contains the query (whatever the case), in input order.
C20_FallbackOfQuery ==
  (Searched /\ NonBlank(input.query))
    => ContainsFallback(input.stocks, toLowerCase(input.query), output[1])
\* C20 amended: the same, for the query with the white space around it removed.
C20_FallbackOfTrimmed ==
  (Searched /\ NonBlank(input.query))
    => ContainsFallback(input.stocks, trim(toLowerCase(input.query)), output[1])
\* no stock matches by prefix, one of two contains the query and is returned
C20_Witness ==
  /\ Searched /\ NonBlank(input.query)
  /\ ~SomePrefix(input.stocks, trim(toLowerCase(input.query)))
  /\ Len(input.stocks) = 2 /\ Len(output[1]) = 1
  /\ Contains(output[1][1], trim(toLowerCase(input.query)))

\* ---- filteredStocks
Viewed == output # None /\ "filters" \in DOMAIN input
AtLeast(bound, amount) == bound = None \/ amount >= bound[1]
AtMost(bound, amount) == bound = None \/ amount <= bound[1]
InRanges(e, f) ==
  /\ AtLeast(f.minPrice, e.currentPrice) /\ AtMost(f.maxPrice, e.currentPrice)
  /\ f.minChangePercent = None \/ Geq(e.changePercent, Num(f.minChangePercent[1], 1))
  /\ f.maxChangePercent = None \/ Leq(e.changePercent, Num(f.maxChangePercent[1], 1))
  /\ AtLeast(f.minMarketCap, e.marketCap) /\ AtMost(f.maxMarketCap, e.marketCap)
Ranged(list, f) == Pick(list, {i \in DOMAIN list : InRanges(list[i], f)})
\* the numeric-range filters first, the text search second, then the sort
RangesFirst == sortStocks(searchStocks(Ranged(input.stocks, input.filters), input.filters.searchQuery), input.sortConfig)
\* some stock matches the query by prefix, and none of those is within the bounds
PrefixMatchesAllOutOfRange ==
  /\ NonBlank(input.filters.searchQuery)
  /\ SomePrefix(input.stocks, trim(toLowerCase(input.filters.searchQuery)))
  /\ ~SomePrefix(Ranged(input.stocks, input.filters), trim(toLowerCase(input.filters.searchQuery)))

Returned == output[1]
SameKey(e, symbol) == toUpperCase(e.symbol) = toUpperCase(symbol)

\* C21: on a list sorted by upper-cased key with unique keys,
\* binarySearchBySymbol returns a stock whose key equals the symbol asked for
\* ignoring case when the list has one, and undefined when it has none or is
\* empty.
C21_BySymbol ==
  (output # None /\ "symbol" \in DOMAIN input) =>
    IF \E i \in DOMAIN input.stocks : SameKey(input.stocks[i], input.symbol)
    THEN /\ Returned # None
         /\ \E i \in DOMAIN input.stocks : Returned[1] = input.stocks[i]
         /\ SameKey(Returned[1], input.symbol)
    ELSE Returned = None
\* the last of four stocks is found by a symbol written in another case
C21_Witness ==
  /\ output # None /\ "symbol" \in DOMAIN input
  /\ Len(input.stocks) = MaxSorted
  /\ Returned = Some(input.stocks[MaxSorted])
  /\ Returned[1].symbol # input.symbol

\* ---- binarySearchByNamePrefix
NameMatches(list, prefix) == Pick(list, {i \in DOMAIN list : NameStarts(list[i], toLowerCase(prefix))})

\* C22: on a list sorted by lower-cased name, binarySearchByNamePrefix returns
\* for a non-empty prefix exactly the stocks whose name starts with the prefix
\* ignoring case, in input order (none: the empty list), and for the empty
\* prefix the list it was given.
C22_ByNamePrefix ==
  (output # None /\ "prefix" \in DOMAIN input) =>
    Returned = IF input.prefix = <<>> THEN input.stocks ELSE NameMatches(input.stocks, input.prefix)
\* two of four stocks match, with a stock before and a stock after them
C22_Witness ==
  /\ output # None /\ "prefix" \in DOMAIN input /\ input.prefix # <<>>
  /\ Len(input.stocks) = MaxSorted /\ Len(Returned) = 2
  /\ Returned = SubSeq(input.stocks, 2, 3)
  /\ Returned[1] # Returned[2]

\* ---- findInsertionPoint
Inserted == output # None /\ "sortBy" \in DOMAIN input
InsertAt(list, index, e) == SubSeq(list, 1, index) \o <<e>> \o SubSeq(list, index + 1, Len(list))
\* non-decreasing under the comparison the function uses for sortBy
SortedFor(sortBy, list) ==
  \A i, j \in DOMAIN list : i < j =>
    (CASE sortBy = "price" -> list[i].currentPrice - list[j].currentPrice
       [] sortBy = "name" -> localeCompare(list[i].name, list[j].name)
       [] OTHER -> localeCompare(list[i].symbol, list[j].symbol)) <= 0
EqualFor(sortBy, a, b) ==
  CASE sortBy = "price" -> a.currentPrice = b.currentPrice
    [] sortBy = "name" -> a.name = b.name
    [] OTHER -> a.symbol = b.symbol
KeepsSorted(index) == SortedFor(input.sortBy, InsertAt(input.stocks, index, input.stock))

\* C23: for a list sorted under the chosen comparator and any candidate, the
\* index findInsertionPoint returns lies in 0..length and inserting the
\* candidate there leaves the list sorted.
C23_InsertionKeepsSorted ==
  Inserted => Returned \in 0..Len(input.stocks) /\ KeepsSorted(Returned)
\* a candidate that belongs strictly inside a list of three
C23_Witness ==
  /\ Inserted /\ Len(input.stocks) = MaxInto /\ Returned \in 1..(MaxInto - 1)
  /\ ~EqualFor(input.sortBy, input.stocks[1], input.stocks[MaxInto])

\* C24 as stated: findInsertionPoint returns the leftmost index that keeps the
\* list sorted: no smaller index keeps it sorted, also when stocks of the list
\* compare equal to the candidate.
C24_Leftmost ==
  Inserted => \A index \in 0..(Returned - 1) : ~KeepsSorted(index)
\* C24 amended: findInsertionPoint returns the rightmost index that keeps the
\* list sorted: no larger index keeps it sorted; it is also the leftmost one
\* when no stock of the list compares equal to the candidate.
C24_Rightmost ==
  Inserted =>
    /\ \A index \in (Returned + 1)..Len(input.stocks) : ~KeepsSorted(index)
    /\ (\A i \in DOMAIN input.stocks : ~EqualFor(input.sortBy, input.stocks[i], input.stock))
         => \A index \in 0..(Returned - 1) : ~KeepsSorted(index)
\* the candidate equals a stock of the list and is smaller than a later one
C24_Witness ==
  /\ Inserted /\ Returned < Len(input.stocks) /\ Returned > 0
  /\ EqualFor(input.sortBy, input.stocks[Returned], input.stock)
  /\ KeepsSorted(Returned - 1)

\* C25: every stock of the list that compares equal to the candidate is at an
\* index smaller than the one findInsertionPoint returns.
C25_AfterEquals ==
  Inserted =>
    \A i \in DOMAIN input.stocks :
      EqualFor(input.sortBy, input.stocks[i], input.stock) => i - 1 < Returned
\* the last two stocks of the list equal the candidate, which goes to the end
C25_Witness ==
  /\ Inserted /\ Len(input.stocks) = MaxInto /\ Returned = MaxInto
  /\ EqualFor(input.sortBy, input.stocks[MaxInto], input.stock)
  /\ EqualFor(input.sortBy, input.stocks[MaxInto - 1], input.stock)
  /\ ~EqualFor(input.sortBy, input.stocks[1], input.stock)

\* ---- sortStocks
\* a is above b in the selected field; a NaN is above and below nothing
Above(field, a, b) ==
  CASE field = "price" -> a.currentPrice > b.currentPrice
    [] field = "changePercent" -> Geq(a.changePercent, b.changePercent) /\ ~Leq(a.changePercent, b.changePercent)
    [] field = "volume" -> a.volume > b.volume
    [] field = "name" -> localeCompare(a.name, b.name) > 0
    [] field = "marketCap" -> a.marketCap > b.marketCap
Tied(field, a, b) ==
  CASE field = "price" -> a.currentPrice = b.currentPrice
    [] field = "changePercent" -> Geq(a.changePercent, b.changePercent) /\ Leq(a.changePercent, b.changePercent)
    [] field = "volume" -> a.volume = b.volume
    [] field = "name" -> a.name = b.name
    [] field = "marketCap" -> a.marketCap = b.marketCap
PositionIn(list, e) == CHOOSE i \in DOMAIN list : list[i] = e

\* C26: sortStocks returns a permutation of its input, leaving the input as
\* it was; no stock comes before a stock that is below it in the selected
\* field (asc) or above it (desc), and stocks tied in the field keep their
\* input order in both directions.
C26_SortedPermutation ==
  output # None =>
    /\ Len(Returned) = Len(input.stocks)
    /\ {Returned[i] : i \in DOMAIN Returned} = {input.stocks[i] : i \in DOMAIN input.stocks}
    /\ \A i, j \in DOMAIN Returned : i < j =>
         /\ IF input.sortConfig.direction = "asc"
            THEN ~Above(input.sortConfig.field, Returned[i], Returned[j])
            ELSE ~Above(input.sortConfig.field, Returned[j], Returned[i])
         /\ Tied(input.sortConfig.field, Returned[i], Returned[j])
              => PositionIn(input.stocks, Returned[i]) < PositionIn(input.stocks, Returned[j])

\* C27: filteredStocks holds exactly the stocks of searchStocks(all, query)
\* that are within every bound that is set, the bounds included (an unset
\* bound excludes nothing), in the order the sort configuration gives them.
C27_FilteredStocks ==
  Viewed =>
    output[1] = sortStocks(Ranged(searchStocks(input.stocks, input.filters.searchQuery), input.filters),
                           input.sortConfig)
\* a query that both stocks match and two bounds, each met exactly by the
\* stock that is kept, while the other stock is dropped
C27_Witness ==
  /\ Viewed /\ NonBlank(input.filters.searchQuery)
  /\ Len(input.stocks) = 2 /\ Len(searchStocks(input.stocks, input.filters.searchQuery)) = 2
  /\ Len(output[1]) = 1
  /\ input.filters.minPrice # None /\ input.filters.maxChangePercent # None
  /\ output[1][1].currentPrice = input.filters.minPrice[1]
  /\ output[1][1].changePercent = Num(input.filters.maxChangePercent[1], 1)

\* ---- construction
\* C28: a window of capacity <= 0 and a throttled updater of interval <= 0
\* are rejected when they are constructed: no instance made from such an
\* argument exists.
C28_FailFast == output # None => input[1] > 0

\* ---- malformed ticks
Malformed(sample) == {"timestamp", "price", "volume"} \ DOMAIN sample # {}

\* C29: a tick that lacks a required field changes nothing: after an action
\* that carries such a tick for an entity, the entity and its series are as
\* they were before the action.
C29_MalformedIsNoOp ==
  \A k \in Touched :
    Malformed(Act.payload[k]) =>
      stocks[k] = Before.stocks[k] /\ priceWindows[k] = Before.priceWindows[k]

\* ---- getLabels
Stride == IF Len(data) \div input > 1 THEN Len(data) \div input ELSE 1
\* the minute of the day a label shows
MinuteOf(label) == label.hour * 60 + label.minute

\* C30: getLabels(count) returns at most count labels, those of the points at
\* indices 0, stride, 2 * stride, ... with stride = max(1, floor(length /
\* count)), and no label for an empty series.
C30_Labels ==
  output # None =>
    /\ Len(Returned) <= input
    /\ \A n \in DOMAIN Returned :
         /\ (n - 1) * Stride < Len(data)
         /\ MinuteOf(Returned[n]) = data[(n - 1) * Stride + 1].timestamp \div 60000
    /\ data = <<>> => Returned = <<>>

\* ---- derived metrics
\* the samples that were pushed and not evicted since: the last maxSize of them
Retained == LastN(pushed, Min(Len(pushed), maxSize))
RetainedPrices == {Retained[i].price : i \in DOMAIN Retained}

\* C31: after any sequence of pushes, getPriceChange().change is the price
\* of the last retained sample minus that of the first when two or more are
\* retained and 0 otherwise, and getPriceRange() is the least and the
\* greatest of the retained prices; evicted samples do not count.
C31_DerivedMetrics ==
  /\ getPriceChange(data).change =
       IF Len(Retained) >= 2 THEN Retained[Len(Retained)].price - Retained[1].price ELSE 0
  /\ Retained # <<>> =>
       /\ getPriceRange(data).min \in RetainedPrices
       /\ getPriceRange(data).max \in RetainedPrices
       /\ \A p \in RetainedPrices : getPriceRange(data).min <= p /\ p <= getPriceRange(data).max
  /\ Retained = <<>> => getPriceRange(data) = [min |-> 0, max |-> 0]
\* the greatest sample pushed has been evicted, and the retained ones begin
\* and end at different prices
C31_Witness ==
  /\ Len(pushed) > maxSize
  /\ \E i \in DOMAIN pushed : pushed[i].price > getPriceRange(data).max
  /\ getPriceChange(data).change # 0

\* ---- pushMany
\* push called for each item, first to last
RECURSIVE PushEach(_, _, _)
PushEach(d, m, items) ==
  IF items = <<>> THEN d ELSE PushEach(push(d, m, Head(items)), m, Tail(items))

\* C32: after pushMany(items) the window holds what it would hold after
\* push was called for each item in order, whatever it held before and
\* however long the sequence is.
C32_PushManyIsRepeatedPush ==
  output # None => data = PushEach(output[1], maxSize, input)
\* the sequence was longer than the capacity of a window that was full
C32_Witness ==
  /\ output # None
  /\ maxSize > 1
  /\ Len(output[1]) = maxSize
  /\ Len(input) > maxSize
  /\ \E i, j \in DOMAIN input : input[i] # input[j]

\* ---- getAll returns a copy
\* C33: whatever is done to the arrays getAll() returned, the window holds
\* the pushes it retained: its contents, its size and what getAll() and
\* getLatest() return afterwards are those of a window nobody touched.
C33_GetAllCopies ==
  /\ getAll(data) = Retained
  /\ size(data) = Len(Retained)
  /\ getLatest(data) = IF pushed = <<>> THEN None ELSE Some(pushed[Len(pushed)])
  /\ \A ref \in input.held : ref # input.self
\* an array getAll() returned was changed, and a later getAll() returned the
\* window's contents
C33_Witness ==
  /\ input.edits > 0
  /\ output # None
  /\ data # <<>>
  /\ input.arrays[output[1]] = data
  /\ \E ref \in input.held : input.arrays[ref] # data /\ Len(input.arrays[ref]) = Len(data)

\* ---- the empty state
\* C34: a window that was just constructed or just cleared returns an empty
\* sequence from getAll() and getPrices(), nothing from getLatest(), {0, 0}
\* from getPriceChange() and from getPriceRange(); clear() leaves the
\* capacity as it was constructed, and the window then fills and evicts as a
\* fresh one of that capacity does.
C34_EmptyState ==
  /\ pushed = <<>> =>
       /\ getAll(data) = <<>>
       /\ getPrices(data) = <<>>
       /\ getLatest(data) = None
       /\ getPriceChange(data) = [change |-> 0, changePercent |-> Num(0, 100)]
       /\ getPriceRange(data) = [min |-> 0, max |-> 0]
  /\ maxSize = input[1]
  /\ data = Retained
\* the window has just been cleared
C34_Witness ==
  /\ output # None
  /\ pushed = <<>>
  /\ maxSize > 1

\* ---- entity and series agree
\* a === b for two fields that hold a number or are left out (undefined)
SameField(a, fa, b, fb) ==
  IF Holds(a, fa) /\ Holds(b, fb) THEN a[fa] = b[fb] ELSE ~Holds(a, fa) /\ ~Holds(b, fb)

\* C35: in every state reached from the initial stocks by applying ticks,
\* each stock's currentPrice is the price of the latest point of its window.
C35_CurrentIsLatest ==
  \A k \in DOMAIN stocks :
    /\ getLatest(priceWindows[k]) # None
    /\ SameField(stocks[k], "currentPrice", getLatest(priceWindows[k])[1], "price")
\* a tick has moved the price of a stock whose window was full
C35_Witness ==
  \E k \in Touched :
    /\ Holds(stocks[k], "currentPrice") /\ Holds(Before.stocks[k], "currentPrice")
    /\ stocks[k].currentPrice # Before.stocks[k].currentPrice
    /\ Len(Before.priceWindows[k]) = PRICE_HISTORY_MAX_POINTS

\* ---- the range of a stock
\* low <= x <= high for a stock's low24h and high24h; false when one is NaN
InRange(stock, x) ==
  /\ Holds(stock, "low24h") /\ Holds(stock, "high24h")
  /\ stock.low24h <= x /\ x <= stock.high24h

\* C36: in every reachable state, for every stock, low24h <= currentPrice <=
\* high24h and low24h <= p <= high24h for every price p its window retains;
\* from one update to the next high24h never decreases and low24h never
\* increases.
C36_RangeInvariant ==
  \A k \in DOMAIN stocks :
    /\ Holds(stocks[k], "currentPrice") /\ InRange(stocks[k], stocks[k].currentPrice)
    /\ \A i \in DOMAIN priceWindows[k] :
         Holds(priceWindows[k][i], "price") /\ InRange(stocks[k], priceWindows[k][i].price)
    /\ k \in Touched /\ Holds(Before.stocks[k], "high24h") =>
         /\ InRange(stocks[k], Before.stocks[k].high24h)
         /\ InRange(stocks[k], Before.stocks[k].low24h)

\* ---- record() from inside the flush callback
\* C37: the map handed to updateFn keeps the entries of its cycle whatever
\* is recorded later, and a value recorded from inside updateFn is not lost:
\* it opens a new cycle with a timer of its own, armed throttleMs ahead, and
\* the next flush hands it over.
C37_ReentrantRecord ==
  /\ output # None => EntriesOf(output[1]) = LastWrites(lastFlush.log)
  /\ updaterPending # EmptyMap =>
       /\ isScheduled
       /\ \E t \in Armed("updater") : t.at = cycleLog[1][3] + throttleMs
       /\ updaterPending = LastWrites(cycleLog)
  /\ flushCount + (IF Armed("updater") = {} THEN 0 ELSE 1) = cycles
\* a value recorded from inside updateFn was handed over by the next flush,
\* and another value has been recorded since
C37_Witness ==
  /\ flushCount >= 2
  /\ Len(lastFlush.log[1]) = 4
  /\ output # None
  /\ lastFlush.log[1][1] \in DOMAIN output[1].entries
  /\ updaterPending # EmptyMap
  /\ updaterPending # output[1].entries

\* ---- the websocket service
\* C38: once disconnect() has run, the service makes no connection attempt
\* until connect() is called from outside again: no reconnect timer calls
\* connect() after the provider's cleanup.
C38_NoConnectAfterDisconnect == serviceLog.lateConnects = 0


\* C39: reconnectAttempts never exceeds maxReconnectAttempts and is 0 after
\* every open; each of the first maxReconnectAttempts closes in a row without
\* an open schedules one connect(), and every close after them schedules none
\* and reports the failure through the error callback instead.
C39_BoundedReconnection ==
  /\ service.reconnectAttempts <= maxReconnectAttempts
  /\ service.reconnectAttempts = Min(serviceLog.closes, maxReconnectAttempts)
  /\ serviceLog.scheduled = Min(serviceLog.closes, maxReconnectAttempts)
  /\ serviceLog.gaveUp = serviceLog.closes - serviceLog.scheduled
\* the service gave up: a socket closed after maxReconnectAttempts closes in a row
C39_Witness ==
  /\ serviceLog.gaveUp > 0
  /\ serviceLog.closes > maxReconnectAttempts
  /\ Armed("reconnect") = {}

\* C40: the fallback timer starts the simulation only if no real tick has
\* been fed since startup, and no simulated tick is fed once a real tick has
\* been.
C40_SimulationFallback ==
  /\ serviceLog.startedAfter # None => serviceLog.startedAfter[1] = 0
  /\ \A i, j \in DOMAIN serviceLog.fed :
       i < j => ~(serviceLog.fed[i] = "real" /\ serviceLog.fed[j] = "simulated")

====
